---- MODULE Spec2Model ----
(***************************************************************************)
(* Match orchestration of awap-matchmaking: the ranked scrimmage batch     *)
(* (server/ranked_game_runner.py), the tournament bracket                  *)
(* (server/tournament_runner.py) and the runner callbacks of main.py.      *)
(*                                                                         *)
(* Players are named by their position in the rating-sorted list that      *)
(* MatchRunner.get_match_players_info returns (1 = highest rated).         *)
(* Calls into the object store and the database succeed; a callback body   *)
(* is abstracted to what StorageHandler.process_replay makes of it:        *)
(* winner 1 (red), winner 2 (blue) or an exception.                         *)
(***************************************************************************)
EXTENDS Integers, Sequences, FiniteSets, TLC

\* ---------------------------------------------------------------- bounds
\* HTTP handler threads that run scrimmage callbacks at the same time.
MaxHandlers == 2

\* Most players a tournament is run with.
MaxTourneyPlayers == 4

\* ------------------------------------------------------------- constants
\* RankedGameRunner.num_matches
num_matches == 4
\* Elo.k
Elo_k == 20

\* Rating lists a scrimmage is scheduled on, as get_match_players_info
\* returns them (sorted by rating, descending; one entry per submitted user
\* that has a rating row: four submissions of which three have one).  The
\* second list has two equally rated users, who meet twice.
RatingProfiles == { <<1600, 1500, 1400>>, <<1500, 1500, 1400>> }

\* What process_replay makes of a callback body: 1, 2, or -1 for a raise.
ParseResults == {1, 2, -1}

\* tourney_map_order lists offered to setup_game_engine; a layer's list of map
\* names is given by its length.
MapOrders == { <<1>>, <<1, 3>>, <<2>> }

\* time_ns() of run_tournament and of run_scrimmage: the batch ids
tournament_id == "tournament_id"
scrimmage_id == "scrimmage_id"

\* Usernames of the tournament players, by seed.
UserNames == << "s1", "s2", "s3", "s4", "s5", "s6", "s7", "s8",
               "s9", "s10", "s11", "s12", "s13", "s14", "s15", "s16" >>

VARIABLES
    \* ---- shared by every match kind
    match_counter,      \* AtomicCounter.next_val
    table,              \* match table: MATCH_ID -> row
    \* ---- ranked scrimmage
    players,            \* scrimmage_players: ratings sampled at scheduling
    spc,                \* position of ranked_scrimmage_thread
    toSend,             \* pairings of `matches` not yet dispatched
    callbacks,          \* post_match_callbacks: match id -> <<player_1, player_2>>
    jobs,               \* match ids whose job is at the runner, callback not yet delivered
    net_elo_changes,    \* username -> accumulated change
    matches_left,       \* RankedScrimmagePostMatchCallbacks.matches_left
    handler,            \* per handler thread: position and locals of run_scrimmage_callback
    playerTable,        \* player table: current_rating as written by adjust_elo_table
    eloWrites,          \* number of adjust_elo_table calls made by the batch
    netDone,            \* match ids whose callback has finished both += on net_elo_changes
    delta,              \* match id -> player_1_change computed by its callback
    \* ---- tournament
    app_maps,           \* app.maps.tourney_map_order, <<>> while app.maps is None
    tpc,                \* position of the tournament worker thread
    match_map_order,    \* TournamentRunner.match_map_order
    tplayers,           \* tournament_players (0 is None)
    tlayer,             \* curr_tournament_layer
    layerIdx,           \* layer
    pairups,            \* pairups of the current layer: the TourneyPairUpRunner objects
    bracket,            \* complete_tournament_results
    tcallbacks,         \* OngoingTourneyTable.callbacks: match id -> <<layer, pairing>>
    tjobs,              \* tournament match ids at the runner, callback not yet delivered
    toutcome,           \* match id -> outcome its callback hands to the table
    num_tournament_spots, \* Tournament.num_tournament_spots of the request
    \* ---- object store
    replay_bucket,      \* names of the objects of the replay bucket
    errlog_bucket,      \* names of the objects of the error-log bucket
    \* ---- game-engine registry and batch registries of the app
    app_engine,         \* app.engine: the upload the descriptor is of, <<>> while None
    app_engine_filename, \* app.engine_filename: the upload the engine file handle is of
    app_makefile,       \* app.makefile: the upload the makefile handle is of
    scrimmage_table,    \* keys of app.scrimmage_table
    tourney_table,      \* keys of app.tourney_table
    \* ---- unranked matches
    ujobs,              \* unranked match ids at the runner, callback not yet delivered
    uhandler,           \* per handler thread: position and locals of run_single_match_callback
    uresponse,          \* match id -> HTTP status its callback returned to the runner
    \* ---- AtomicCounter seen from its callers
    lock,               \* AtomicCounter.lock: the caller holding it, 0 when free
    caller,             \* per calling thread: position in __next__, val, the ids it was handed
    \* ---- POST /match seen from its caller
    mresponse,          \* the latest /match request and the HTTP status it was answered with
    \* ---- OngoingTourneyTable seen step by step
    tlock,              \* OngoingTourneyTable.lock: the match id of the callback holding it, 0 when free
    tfire,              \* match id -> position and winner of its run_tournament_callback
    \* ---- the thread pool of a tournament layer
    max_workers,        \* ThreadPoolExecutor max_workers, 0 where the pool is not looked into
    returned            \* pairings of the layer in the order their start returned

sharedVars == <<match_counter, table>>
tourVars   == <<app_maps, tpc, match_map_order, tplayers, tlayer, layerIdx, pairups, bracket,
                tcallbacks, tjobs, toutcome, num_tournament_spots>>
scrimVars  == <<players, spc, toSend, callbacks, jobs, net_elo_changes, matches_left,
                handler, playerTable, eloWrites, netDone, delta>>
engineVars == <<app_engine, app_engine_filename, app_makefile>>
registryVars == <<scrimmage_table, tourney_table>>
unrankedVars == <<ujobs, uhandler, uresponse>>
counterVars == <<lock, caller>>
stepVars == <<mresponse, tlock, tfire>>
poolVars == <<max_workers, returned>>
restVars == <<unrankedVars, counterVars, errlog_bucket, stepVars, poolVars>>
vars == <<sharedVars, scrimVars, tourVars, replay_bucket, engineVars, registryVars, restVars>>

Min(a, b) == IF a < b THEN a ELSE b
Max(a, b) == IF a > b THEN a ELSE b
Abs(a) == IF a < 0 THEN -a ELSE a

RECURSIVE SumOver(_, _)
SumOver(f, S) ==
    IF S = {} THEN 0
    ELSE LET x == CHOOSE y \in S : TRUE IN f[x] + SumOver(f, S \ {x})

\* ------------------------------------------------------------------- Elo
\* int(20 * (0 - expected)) is -n where n counts the k in 1..19 with
\* 20 / (1 + 10^(d/400)) >= k, d = second_elo - first_elo.  EloThresholds[k]
\* is the largest integer d for which that holds (evaluated with the
\* source's float arithmetic, which agrees on every |d| <= 4000).
EloThresholds ==
    << 511, 381, 301, 240, 190, 147, 107, 70, 34, 0,
       -35, -71, -108, -148, -191, -241, -302, -382, -512 >>

\* int(Elo.k * expected_score(first, second)), d = second - first
ExpectedTimesK(d) == Cardinality({ k \in 1..(Elo_k - 1) : d <= EloThresholds[k] })

\* Elo.calc_elo_change: (change to first team, change to second team)
calc_elo_change(first_elo, second_elo, first_team_won) ==
    LET d == second_elo - first_elo
        rating_change == IF first_team_won
                         THEN ExpectedTimesK(-d)      \* int(20 * (1 - e)) = int(20 * e(second, first))
                         ELSE -ExpectedTimesK(d)
    IN  <<rating_change, -rating_change>>

\* -------------------------------------------------------- pairing choice
\* Python list index j (negative indices count from the end) as a 1-based index.
PyIndex(len, j) == IF j < 0 THEN len + j + 1 ELSE j + 1

\* bot_index of ranked_scrimmage_thread for the player at 0-based position i
bot_index(P, i) == Min(P - 1 - num_matches, Max(0, i - 2))

\* The indices j at which ranked_scrimmage_thread reads scrimmage_players[j]
\* for a list of P players
OpponentIndices(P) ==
    { j \in (Min(0, P - 1 - num_matches))..(P - 1) :
        \E i \in 0..(P - 1) : j >= bot_index(P, i) /\ j <= bot_index(P, i) + num_matches }

\* scrimmage_players[j] raises IndexError: a Python list of P items is indexed
\* by -P..P-1
IndexOutOfRange(P, j) == j < -P \/ j >= P

\* The set `matches` built by ranked_scrimmage_thread: <<player_1, player_2>>,
\* for a list on which no index is out of range.
ScrimmageMatches(ps) ==
    LET P == Len(ps) IN
    { IF ps[PyIndex(P, j)] < ps[i + 1]
        THEN <<PyIndex(P, j), i + 1>>
        ELSE <<i + 1, PyIndex(P, j)>>
      : <<i, j>> \in { <<a, b>> \in (0..(P - 1)) \X (Min(0, P - 1 - num_matches)..(P - 1)) :
                         /\ b >= bot_index(P, a)
                         /\ b <= bot_index(P, a) + num_matches
                         /\ PyIndex(P, b) # a + 1 } }

\* ------------------------------------------------------------ match table
\* dest_filename of a callback: f"{kind}-{match_id}.json"; NoFile is ""
ReplayName(kind, mid) == <<kind, mid>>
NoFile == <<>>

\* StorageHandler.get_replay_url: the presigned URL of the object; NoUrl is ""
get_replay_url(dest_filename) == <<"url", dest_filename>>
NoUrl == <<>>

\* StorageHandler.insert_pending_match_into_table
PendingRow == [status |-> "pending", outcome |-> "", elo_change |-> 0, replay_filename |-> NoFile,
               replay_url |-> NoUrl]

\* (variant: the update leaves REPLAY_FILENAME as it was)
FinishedRowNoFile(row, outcome, elo_change, replay_filename) ==
    [row EXCEPT !.status = "finished", !.outcome = outcome, !.elo_change = elo_change,
                !.replay_url = get_replay_url(replay_filename)]

\* StorageHandler.update_finished_match_in_table: sets status, outcome,
\* replay_filename, elo_change and replay_url (every caller passes
\* get_replay_url(replay_filename))
FinishedRow(row, outcome, elo_change, replay_filename) ==
    [row EXCEPT !.status = "finished", !.outcome = outcome, !.elo_change = elo_change,
                !.replay_filename = replay_filename,
                !.replay_url = get_replay_url(replay_filename)]

\* (variant: a failed match is booked as a loss of team 1)
FailedRowAsLoss(row) == [row EXCEPT !.status = "failed", !.outcome = "team2", !.replay_url = NoUrl]

\* StorageHandler.update_failed_match_in_table: "set MATCH_STATUS=:s,
\* LAST_UPDATED=:t, REPLAY_URL=:u", :u being the replay_url of
\* MatchTableSchema(match_id), which is ""
FailedRow(row) == [row EXCEPT !.status = "failed", !.replay_url = NoUrl]

\* API.__init__: no engine has been uploaded
EngineUnset ==
    /\ app_engine = <<>>
    /\ app_engine_filename = <<>>
    /\ app_makefile = <<>>
    /\ app_maps = <<>>

\* The registry after the accepted upload of the descriptor `order`
EngineSet(order) ==
    /\ app_engine = order
    /\ app_engine_filename = order
    /\ app_makefile = order
    /\ app_maps = order

\* No unranked match has been requested.
UnrankedIdle ==
    /\ ujobs = {}
    /\ uhandler = <<>>
    /\ uresponse = <<>>

\* The counter is used by the dispatch steps only.
CounterIdle ==
    /\ lock = 0
    /\ caller = <<>>

\* GameEngine.game_engine_name and GameEngine.num_players of every descriptor
\* uploaded: the uploads differ in their map order only.
EngineName == "awap"
EngineNumPlayers == 2

\* The request of a client that knows the engine: game_engine_name,
\* num_players and len(user_submissions)
ValidMatch ==
    [game_engine_name |-> EngineName, num_players |-> EngineNumPlayers,
     user_submissions |-> EngineNumPlayers]

\* Match requests: the valid one, and one that differs from it in the engine
\* name, in num_players, or in the number of submissions (with num_players
\* equal to it)
Requests ==
    { ValidMatch,
      [ValidMatch EXCEPT !.game_engine_name = "other"],
      [ValidMatch EXCEPT !.num_players = EngineNumPlayers + 1],
      [ValidMatch EXCEPT !.num_players = EngineNumPlayers + 1,
                         !.user_submissions = EngineNumPlayers + 1] }

\* What happens inside MatchRunner.sendJob: every call returns, or
\* s3.download_file or tango.upload_file raises (before the pending row is
\* inserted), or tango.add_job raises HTTPException(500) after it.
SendResults == {"ok", "upload_fails", "add_job_fails"}

\* No /match request has been answered; no tournament callback is under way.
NoResponse ==
    [req |-> [game_engine_name |-> "", num_players |-> 0, user_submissions |-> 0],
     send |-> "none", status |-> 0]
StepsIdle ==
    /\ mresponse = NoResponse
    /\ tlock = 0
    /\ tfire = <<>>
    /\ max_workers = 0
    /\ returned = <<>>

\* No tournament has been requested.
TourIdle ==
    /\ tpc = "idle"
    /\ num_tournament_spots = 0
    /\ tourney_table = {}
    /\ match_map_order = <<>>
    /\ tplayers = <<>>
    /\ tlayer = <<>>
    /\ layerIdx = 0
    /\ pairups = <<>>
    /\ bracket = <<>>
    /\ tcallbacks = <<>>
    /\ tjobs = {}
    /\ toutcome = <<>>

\* ------------------------------------------------------ ranked scrimmage
Handlers == 1..MaxHandlers
Users == 1..Len(players)
IdleHandler == [pc |-> "idle", mid |-> 0, winner |-> 0, tmp |-> 0]

\* run_scrimmage_callback: the outcome handed to the registry entry is the
\* parsed winner, or -1 from the except branch.
CallbackOutcome(parsed) == IF parsed > 0 THEN parsed ELSE -1

\* post_tango_callback: winner_is_player_1 = winner == 1
winner_is_player_1(winner) == winner = 1

\* post_tango_callback: (player_1_change, player_2_change) of match mid
MatchChange(mid, winner) ==
    calc_elo_change(players[callbacks[mid][1]], players[callbacks[mid][2]],
                    winner_is_player_1(winner))

\* (variant: the test fires one match early)
BatchCompleteEarly(left) == left <= 1

\* RankedScrimmageTableEntry.run_callback: `if matches_left == 0`
BatchComplete(left) == left = 0

\* RankedGameRunner.ranked_scrimmage_thread up to scrimmage_entry.setup; an
\* IndexError of the pairing loop ends the thread, and so does an empty
\* `matches` after the setup (the dispatch loop has nothing to iterate).
ScrimSetup ==
    /\ spc = "start"
    /\ IF \E j \in OpponentIndices(Len(players)) : IndexOutOfRange(Len(players), j)
       THEN /\ spc' = "raised"
            /\ UNCHANGED <<toSend, net_elo_changes, matches_left, callbacks>>
       ELSE /\ toSend' = ScrimmageMatches(players)
            /\ net_elo_changes' = [u \in Users |-> 0]
            /\ matches_left' = Cardinality(ScrimmageMatches(players))
            /\ callbacks' = <<>>
            /\ spc' = IF ScrimmageMatches(players) = {} THEN "done" ELSE "dispatch"
    /\ UNCHANGED <<sharedVars, players, jobs, handler, playerTable, eloWrites, netDone, delta, tourVars,
                   restVars, engineVars, registryVars, replay_bucket>>

\* The pairing the dispatch loop takes next.  Iteration over the set `matches`
\* follows one fixed order per run; the order used here is by player_1, then player_2.
NextPairing(S) ==
    CHOOSE p \in S : \A q \in S : p[1] < q[1] \/ (p[1] = q[1] /\ p[2] <= q[2])

\* One iteration of the dispatch loop: MatchRunner(next(match_counter)),
\* scrimmage_entry.register, sendJob (pending row, add_job).
ScrimSend ==
    /\ spc = "dispatch"
    /\ LET pair == NextPairing(toSend) IN
        /\ toSend' = toSend \ {pair}
        /\ callbacks' = (match_counter :> pair) @@ callbacks
        /\ table' = (match_counter :> PendingRow) @@ table
        /\ jobs' = jobs \cup {match_counter}
        /\ match_counter' = match_counter + 1
        /\ spc' = IF toSend' = {} THEN "done" ELSE "dispatch"
    /\ UNCHANGED <<players, net_elo_changes, matches_left, handler, playerTable,
                   eloWrites, netDone, delta, tourVars,
                   restVars, engineVars, registryVars, replay_bucket>>

\* run_scrimmage_callback up to the call of the registry entry:
\* process_replay, and in the except branch update_failed_match_in_table.
ScrimRecv(h) ==
    /\ handler[h].pc = "idle"
    /\ \A g \in Handlers : g < h => handler[g].pc # "idle"   \* threads are interchangeable
    /\ \E mid \in jobs, parsed \in ParseResults :
        /\ jobs' = jobs \ {mid}
        /\ table' = IF parsed > 0 THEN table
                    ELSE [table EXCEPT ![mid] = FailedRow(@)]
        /\ replay_bucket' = IF parsed > 0
                            THEN replay_bucket \cup {ReplayName("ranked_scrimmage", mid)}
                            ELSE replay_bucket
        /\ handler' = [handler EXCEPT ![h] =
                         [pc |-> "r1", mid |-> mid, winner |-> CallbackOutcome(parsed), tmp |-> 0]]
    /\ UNCHANGED <<match_counter, players, spc, toSend, callbacks, net_elo_changes,
                   matches_left, playerTable, eloWrites, netDone, delta, tourVars,
                   restVars, engineVars, registryVars>>

\* post_tango_callback: net_elo_changes[player_1] += player_1_change, the read
ScrimRead1(h) ==
    /\ handler[h].pc = "r1"
    /\ handler' = [handler EXCEPT ![h].pc = "w1",
                                  ![h].tmp = net_elo_changes[callbacks[handler[h].mid][1]]]
    /\ delta' = (handler[h].mid :> MatchChange(handler[h].mid, handler[h].winner)[1]) @@ delta
    /\ UNCHANGED <<sharedVars, players, spc, toSend, callbacks, jobs, net_elo_changes,
                   matches_left, playerTable, eloWrites, netDone, tourVars,
                   restVars, engineVars, registryVars, replay_bucket>>

\* ... and the write
ScrimWrite1(h) ==
    /\ handler[h].pc = "w1"
    /\ net_elo_changes' = [net_elo_changes EXCEPT ![callbacks[handler[h].mid][1]] =
                             handler[h].tmp + MatchChange(handler[h].mid, handler[h].winner)[1]]
    /\ handler' = [handler EXCEPT ![h].pc = "r2", ![h].tmp = 0]
    /\ UNCHANGED <<sharedVars, players, spc, toSend, callbacks, jobs,
                   matches_left, playerTable, eloWrites, netDone, delta, tourVars,
                   restVars, engineVars, registryVars, replay_bucket>>

\* post_tango_callback: net_elo_changes[player_2] += player_2_change, the read
ScrimRead2(h) ==
    /\ handler[h].pc = "r2"
    /\ handler' = [handler EXCEPT ![h].pc = "w2",
                                  ![h].tmp = net_elo_changes[callbacks[handler[h].mid][2]]]
    /\ UNCHANGED <<sharedVars, players, spc, toSend, callbacks, jobs, net_elo_changes,
                   matches_left, playerTable, eloWrites, netDone, delta, tourVars,
                   restVars, engineVars, registryVars, replay_bucket>>

\* ... and the write
ScrimWrite2(h) ==
    /\ handler[h].pc = "w2"
    /\ net_elo_changes' = [net_elo_changes EXCEPT ![callbacks[handler[h].mid][2]] =
                             handler[h].tmp + MatchChange(handler[h].mid, handler[h].winner)[2]]
    /\ netDone' = netDone \cup {handler[h].mid}
    /\ handler' = [handler EXCEPT ![h].pc = "fin", ![h].tmp = 0]
    /\ UNCHANGED <<sharedVars, players, spc, toSend, callbacks, jobs,
                   matches_left, playerTable, eloWrites, delta, tourVars,
                   restVars, engineVars, registryVars, replay_bucket>>

\* post_tango_callback: update_finished_match_in_table; then run_callback:
\* matches_left -= 1 under matches_left_mutex, and the test of the value read
ScrimFinish(h) ==
    /\ handler[h].pc = "fin"
    /\ table' = [table EXCEPT ![handler[h].mid] =
                   FinishedRow(@,
                       IF winner_is_player_1(handler[h].winner) THEN "team1" ELSE "team2",
                       Abs(MatchChange(handler[h].mid, handler[h].winner)[1]),
                       IF handler[h].winner > 0
                       THEN ReplayName("ranked_scrimmage", handler[h].mid) ELSE NoFile)]
    /\ matches_left' = matches_left - 1
    /\ handler' = [handler EXCEPT ![h] =
                     IF BatchComplete(matches_left') THEN [IdleHandler EXCEPT !.pc = "post"]
                     ELSE IdleHandler]
    /\ UNCHANGED <<match_counter, players, spc, toSend, callbacks, jobs, net_elo_changes,
                   playerTable, eloWrites, netDone, delta, tourVars,
                   restVars, engineVars, registryVars, replay_bucket>>

\* post_scrimmage_callback: updated_elos = rating + net change, adjust_elo_table;
\* `del self.scrimmage_entry` unbinds the runner's attribute and leaves
\* app.scrimmage_table as it is
ScrimPost(h) ==
    /\ handler[h].pc = "post"
    /\ playerTable' = [u \in Users |-> players[u] + net_elo_changes[u]]
    /\ eloWrites' = eloWrites + 1
    /\ handler' = [handler EXCEPT ![h] = IdleHandler]
    /\ UNCHANGED <<sharedVars, players, spc, toSend, callbacks, jobs, net_elo_changes,
                   matches_left, netDone, delta, tourVars,
                   restVars, engineVars, registryVars, replay_bucket>>

InitScrim ==
    /\ match_counter = 1
    /\ table = <<>>
    /\ players \in RatingProfiles
    /\ spc = "start"
    /\ toSend = {}
    /\ callbacks = <<>>
    /\ jobs = {}
    /\ net_elo_changes = <<>>
    /\ matches_left = 0
    /\ handler = [h \in Handlers |-> IdleHandler]
    /\ playerTable = players
    /\ eloWrites = 0
    /\ netDone = {}
    /\ delta = <<>>
    /\ replay_bucket = {}
    /\ errlog_bucket = {}
    /\ scrimmage_table = {scrimmage_id}
    /\ EngineSet(<<1>>)
    /\ TourIdle
    /\ UnrankedIdle
    /\ CounterIdle
    /\ StepsIdle

NextScrim ==
    \/ ScrimSetup
    \/ ScrimSend
    \/ \E h \in Handlers : ScrimRecv(h)
    \/ \E h \in Handlers : ScrimRead1(h)
    \/ \E h \in Handlers : ScrimWrite1(h)
    \/ \E h \in Handlers : ScrimRead2(h)
    \/ \E h \in Handlers : ScrimWrite2(h)
    \/ \E h \in Handlers : ScrimFinish(h)
    \/ \E h \in Handlers : ScrimPost(h)

SpecScrim == InitScrim /\ [][NextScrim]_vars

\* ---------------------------------------------------- scrimmage: claims
ScrimQuiescent ==
    /\ spc = "done"
    /\ jobs = {}
    /\ \A h \in Handlers : handler[h].pc = "idle"

ScrimAllUpdated ==
    /\ spc = "done"
    /\ jobs = {}
    /\ netDone = DOMAIN callbacks
    /\ Cardinality(netDone) = Cardinality(ScrimmageMatches(players))

\* Sum, over the matches user u played, of the change its callback computed for u.
DeltaOf(u) ==
    [mid \in DOMAIN delta |->
        IF callbacks[mid][1] = u THEN delta[mid]
        ELSE IF callbacks[mid][2] = u THEN -delta[mid] ELSE 0]

\* C1: a match row that is FINISHED or FAILED keeps that status in every later
\* write (the status history is PENDING followed by exactly one terminal write).
C1_TerminalStatusIsFinal ==
    [][\A mid \in DOMAIN table :
          table[mid].status \in {"finished", "failed"}
             => table'[mid].status = table[mid].status]_vars

\* C2: the callback of a scrimmage match that reports winner <= 0 adds 0 to
\* net_elo_changes of both players, and takes matches_left down by exactly one.
C2_FailedMatchAddsNothing ==
    [][\A h \in Handlers :
          (handler[h].winner < 0 /\ handler'[h] # handler[h])
             => /\ handler[h].pc \in {"w1", "w2"} => net_elo_changes' = net_elo_changes
                /\ handler[h].pc = "fin" => matches_left' = matches_left - 1]_vars

\* C3: when every dispatched match gets its one callback, adjust_elo_table is
\* called exactly once per batch, and only when the callback of every match of
\* the batch has finished its updates of net_elo_changes.
C3_EloWrittenOnceAfterAll ==
    /\ eloWrites <= 1
    /\ (eloWrites = 1 \/ \E h \in Handlers : handler[h].pc = "post") => ScrimAllUpdated
    /\ ScrimQuiescent => eloWrites = 1

C3_Witness ==
    /\ eloWrites = 1
    /\ Cardinality(netDone) >= 3
    /\ ScrimQuiescent

\* C4: whatever the interleaving of the callbacks, when the batch completes
\* net_elo_changes[u] is the sum of the changes of all matches u played in.
C4_NoLostIncrement ==
    (spc = "done" /\ BatchComplete(matches_left))
       => \A u \in Users : net_elo_changes[u] = SumOver(DeltaOf(u), DOMAIN delta)

\* C5: after the scrimmage completes, the ratings written to the player table
\* minus the ratings sampled at scheduling sum to 0 over the players.
C5_ZeroSum ==
    eloWrites >= 1
       => SumOver([u \in Users |-> playerTable[u] - players[u]], Users) = 0

\* ------------------------------------------------------------ tournament
None == "None"

\* x & y on naturals
RECURSIVE BitAnd(_, _)
BitAnd(x, y) ==
    IF x = 0 \/ y = 0 THEN 0
    ELSE (x % 2) * (y % 2) + 2 * BitAnd(x \div 2, y \div 2)

\* TournamentRunner.is_pow_two
is_pow_two(n) == (n # 0) /\ (BitAnd(n, n - 1) = 0)

\* (variant: the list of players is left as it is)
PadNothing(tps) == tps

\* tournament_worker_thread: pad the list of players with byes until power of 2
RECURSIVE PadWithByes(_)
PadWithByes(tps) == IF is_pow_two(Len(tps)) THEN tps ELSE PadWithByes(Append(tps, None))

\* tournament_worker_thread: the first layer, players[i] then players[len - i - 1]
InitialLayer(tps) ==
    [j \in 1..(2 * (Len(tps) \div 2)) |->
        IF j % 2 = 1 THEN tps[(j + 1) \div 2] ELSE tps[Len(tps) - (j \div 2) + 1]]

\* (variant: the results go on in the order the pool returned them)
ReorderResultsAsReturned(raw) == raw

\* tournament_worker_thread: the order of a layer's results,
\* raw_results[i] then raw_results[len - i - 1]; one result stays as it is
ReorderResults(raw) ==
    IF Len(raw) > 1
    THEN [j \in 1..(2 * (Len(raw) \div 2)) |->
            IF j % 2 = 1 THEN raw[(j + 1) \div 2] ELSE raw[Len(raw) - (j \div 2) + 1]]
    ELSE raw

\* (variant: the loop leaves the last two players unplayed)
LayerLoopStopsEarly(len) == len > 2

\* tournament_worker_thread: `while len(curr_tournament_layer) > 1`
LayerLoopContinues(len) == len > 1

\* (variant: layers with an even number of maps are let through)
AnyMapCount(order) == TRUE

\* setup_game_engine: every layer of tourney_map_order has an odd number of maps
AllLayersOdd(order) == \A l \in 1..Len(order) : order[l] % 2 = 1

\* TourneyPairUpRunner.__init__
NewPairing(p1, p2, nmaps) ==
    [p1 |-> p1, p2 |-> p2, nmaps |-> nmaps, pc |-> "new", k |-> 0,
     next_match_id |-> -1, p1wins |-> 0, p2wins |-> 0, sem |-> 0,
     replayLocs |-> <<>>, matchWinners |-> <<>>, sent |-> <<>>, result |-> <<>>]

\* (variant: the bye is handed to the second slot)
ByeWinnerSecond(p1, p2) == p2

\* TourneyPairUpRunner.start: actual_player of a pairing with a None side
ByeWinner(p1, p2) == IF p1 = None THEN p2 ELSE p1

\* (variant: acquire does not wait for a permit)
SemNeverBlocks(sem) == TRUE

\* Semaphore.acquire returns only when a permit is there
SemAvailable(sem) == sem > 0

\* (variant: the series ends once a player has the majority of the maps)
SeriesStopsAtMajority(k, nmaps, p1wins, p2wins) ==
    /\ k < nmaps
    /\ p1wins < (nmaps \div 2) + 1
    /\ p2wins < (nmaps \div 2) + 1

\* TourneyPairUpRunner.start: `for match_map in self.maps` has a map left
\* after the k-th (the score plays no part)
SeriesContinues(k, nmaps, p1wins, p2wins) == k < nmaps

\* TourneyPairUpRunner.start: winner = p1 if p1wins >= p2wins else p2
SeriesWinner(p1, p2, p1wins, p2wins) == IF p1wins >= p2wins THEN p1 ELSE p2

\* get_replay_url of the replay of match mid; the "failed" entry of replayLocs
ReplayUrl(mid) == <<"url", mid>>
FailedLoc == <<"failed", 0>>

\* What the two tango.upload_file calls of setup_game_engine do: both return,
\* or the first or the second raises HTTPException(500).
TangoUploads == {"ok", "engine_upload_fails", "makefile_upload_fails"}

\* POST /game_engine: setup_game_engine assigns app.engine, app.engine_filename,
\* app.makefile and app.maps one after the other and leaves at the first raise:
\* of an upload_file call, or of the test that every layer is odd.
SetupGameEngine(order, tango) ==
    /\ tpc = "idle"
    /\ app_engine' = order
    /\ app_engine_filename' = IF tango = "engine_upload_fails" THEN app_engine_filename ELSE order
    /\ app_makefile' = IF tango = "ok" THEN order ELSE app_makefile
    /\ app_maps' = IF tango = "ok" /\ AllLayersOdd(order) THEN order ELSE app_maps
    /\ UNCHANGED <<sharedVars, scrimVars, tpc, match_map_order, tplayers, tlayer, layerIdx,
                   pairups, bracket, tcallbacks, tjobs, toutcome,
                   restVars, registryVars, replay_bucket, num_tournament_spots>>

\* Values of num_tournament_spots a request comes with
SpotChoices == {2, MaxTourneyPlayers}

\* POST /tournament: run_tournament, TournamentRunner.run_tournament.
\* n of the submitted users have a rating row; get_match_players_info returns
\* them sorted by rating, UserNames[1] first.  The request's
\* num_tournament_spots is kept with the request and read nowhere.
RunTournament(n, spots) ==
    /\ tpc = "idle"
    /\ app_engine # <<>>
    /\ app_maps # <<>>
    /\ tourney_table' = tourney_table \cup {tournament_id}
    /\ num_tournament_spots' = spots
    /\ tplayers' = [i \in 1..n |-> UserNames[i]]
    /\ match_map_order' = app_maps
    /\ tpc' = "seed"
    /\ UNCHANGED <<sharedVars, scrimVars, app_maps, tlayer, layerIdx, pairups, bracket,
                   tcallbacks, tjobs, toutcome,
                   restVars, engineVars, scrimmage_table, replay_bucket>>

\* tournament_worker_thread up to the layer loop
TourSeed ==
    /\ tpc = "seed"
    /\ tplayers' = PadWithByes(tplayers)
    /\ tlayer' = InitialLayer(PadWithByes(tplayers))
    /\ bracket' = <<>>
    /\ layerIdx' = 0
    /\ tpc' = "layer"
    /\ UNCHANGED <<sharedVars, scrimVars, app_maps, match_map_order, pairups,
                   tcallbacks, tjobs, toutcome,
                   restVars, engineVars, registryVars, replay_bucket, num_tournament_spots>>

\* (variant: a pairing with a None side is played like any other)
StartPairingPlaysBye(r) ==
    [r EXCEPT !.pc = "send", !.k = 1, !.p1wins = 0, !.p2wins = 0, !.sem = 0,
              !.replayLocs = <<>>, !.matchWinners = <<>>]

\* TourneyPairUpRunner.start up to the loop over the maps, for pairing r:
\* a pairing with a None side returns its other player at once
StartPairing(r) ==
    IF r.p1 = None \/ r.p2 = None
    THEN IF ByeWinner(r.p1, r.p2) = None
         THEN [r EXCEPT !.pc = "assert"]
         ELSE [r EXCEPT !.pc = "returned",
                        !.result = << [player1 |-> ByeWinner(r.p1, r.p2), player2 |-> "bye",
                                       winner |-> ByeWinner(r.p1, r.p2),
                                       replay_filename |-> <<>>],
                                      ByeWinner(r.p1, r.p2) >>]
    ELSE [r EXCEPT !.pc = "send", !.k = 1, !.p1wins = 0, !.p2wins = 0, !.sem = 0,
                   !.replayLocs = <<>>, !.matchWinners = <<>>]

\* The layer loop: build the pairups and hand them to the thread pool, where
\* each runs start.  (Layers have an even number of entries, so i + 1 is
\* always in range.)
TourLayerStart ==
    /\ tpc = "layer"
    /\ LayerLoopContinues(Len(tlayer))
    /\ pairups' = [j \in 1..(Len(tlayer) \div 2) |->
                     StartPairing(
                       NewPairing(tlayer[2 * j - 1], tlayer[2 * j],
                                  match_map_order[(layerIdx % Len(match_map_order)) + 1]))]
    /\ tpc' = "wait"
    /\ UNCHANGED <<sharedVars, scrimVars, app_maps, match_map_order, tplayers, tlayer,
                   layerIdx, bracket, tcallbacks, tjobs, toutcome,
                   restVars, engineVars, registryVars, replay_bucket, num_tournament_spots>>

\* One map of the series: create_match, parent.register, sendJob
PairSend(i) ==
    /\ i \in DOMAIN pairups
    /\ pairups[i].pc = "send"
    /\ pairups' = [pairups EXCEPT ![i].pc = "acquire",
                                  ![i].next_match_id = match_counter,
                                  ![i].sent = Append(@, match_counter)]
    /\ tcallbacks' = (match_counter :> <<layerIdx, i>>) @@ tcallbacks
    /\ table' = (match_counter :> PendingRow) @@ table
    /\ tjobs' = tjobs \cup {match_counter}
    /\ match_counter' = match_counter + 1
    /\ UNCHANGED <<scrimVars, app_maps, tpc, match_map_order, tplayers, tlayer, layerIdx,
                   bracket, toutcome,
                   restVars, engineVars, registryVars, replay_bucket, num_tournament_spots>>

\* semaphore.acquire, then the next map, or the end of start
PairAcquire(i) ==
    /\ i \in DOMAIN pairups
    /\ pairups[i].pc = "acquire"
    /\ SemAvailable(pairups[i].sem)
    /\ LET r == pairups[i]
           winner == SeriesWinner(r.p1, r.p2, r.p1wins, r.p2wins)
       IN  pairups' = [pairups EXCEPT ![i] =
              IF SeriesContinues(r.k, r.nmaps, r.p1wins, r.p2wins)
              THEN [r EXCEPT !.pc = "send", !.k = r.k + 1, !.sem = r.sem - 1]
              ELSE [r EXCEPT !.pc = "returned", !.sem = r.sem - 1,
                             !.result = << [player1 |-> r.p1, player2 |-> r.p2,
                                            overall_winner |-> winner,
                                            replay_filename |-> r.replayLocs,
                                            map_winners |-> r.matchWinners],
                                           winner >>]]
    /\ UNCHANGED <<sharedVars, scrimVars, app_maps, tpc, match_map_order, tplayers, tlayer,
                   layerIdx, bracket, tcallbacks, tjobs, toutcome,
                   restVars, engineVars, registryVars, replay_bucket, num_tournament_spots>>

\* run_tournament_callback: process_replay, in the except branch
\* update_failed_match_in_table, then OngoingTourneyTable.__call__ under its
\* lock, which runs TourneyPairUpRunner.__call__
run_tournament_callback(mid) ==
    /\ mid \in tjobs
    /\ \E parsed \in ParseResults :
        LET i == tcallbacks[mid][2]
            r == pairups[i]
            winner == CallbackOutcome(parsed)
        IN  /\ toutcome' = (mid :> winner) @@ toutcome
            /\ IF winner = 1 \/ winner = 2
               THEN /\ replay_bucket' = replay_bucket \cup {ReplayName("tournament", mid)}
                    /\ table' = [table EXCEPT ![r.next_match_id] =
                                    FinishedRow(@, IF winner = 1 THEN "team1" ELSE "team2", 0,
                                                ReplayName("tournament", mid))]
                    /\ pairups' = [pairups EXCEPT ![i] =
                          [r EXCEPT !.p1wins = IF winner = 1 THEN r.p1wins + 1 ELSE r.p1wins,
                                    !.p2wins = IF winner = 2 THEN r.p2wins + 1 ELSE r.p2wins,
                                    !.replayLocs = Append(r.replayLocs, ReplayUrl(mid)),
                                    !.matchWinners = Append(r.matchWinners, winner),
                                    !.sem = r.sem + 1]]
               ELSE /\ table' = [table EXCEPT ![mid] = FailedRow(@)]
                    /\ replay_bucket' = replay_bucket
                    /\ pairups' = [pairups EXCEPT ![i] =
                          [r EXCEPT !.replayLocs = Append(r.replayLocs, FailedLoc),
                                    !.matchWinners = Append(r.matchWinners, -1),
                                    !.sem = r.sem + 1]]
    /\ tjobs' = tjobs \ {mid}
    /\ UNCHANGED <<match_counter, scrimVars, app_maps, tpc, match_map_order, tplayers, tlayer,
                   layerIdx, bracket, tcallbacks,
                   restVars, engineVars, registryVars, num_tournament_spots>>

\* The pool has returned every result of the layer: reorder, keep the winners
TourLayerEnd ==
    /\ tpc = "wait"
    /\ \A i \in DOMAIN pairups : pairups[i].pc = "returned"
    /\ LET raw_results == [i \in DOMAIN pairups |-> pairups[i].result]
           results == ReorderResults(raw_results)
       IN  /\ tlayer' = [i \in DOMAIN results |-> results[i][2]]
           /\ bracket' = Append(bracket, [i \in DOMAIN results |-> results[i][1]])
    /\ layerIdx' = layerIdx + 1
    /\ tpc' = "layer"
    /\ UNCHANGED <<sharedVars, scrimVars, app_maps, match_map_order, tplayers, pairups,
                   tcallbacks, tjobs, toutcome,
                   restVars, engineVars, registryVars, replay_bucket, num_tournament_spots>>

\* After the loop: upload_tournament_bracket, callbacks.clear() on the entry;
\* app.tourney_table keeps the entry
TourFinish ==
    /\ tpc = "layer"
    /\ ~LayerLoopContinues(Len(tlayer))
    /\ tcallbacks' = <<>>
    /\ tpc' = "done"
    /\ UNCHANGED <<sharedVars, scrimVars, app_maps, match_map_order, tplayers, tlayer,
                   layerIdx, pairups, bracket, tjobs, toutcome,
                   restVars, engineVars, registryVars, replay_bucket, num_tournament_spots>>

\* No scrimmage has been requested.
ScrimIdle ==
    /\ players = <<>>
    /\ spc = "idle"
    /\ toSend = {}
    /\ callbacks = <<>>
    /\ jobs = {}
    /\ net_elo_changes = <<>>
    /\ matches_left = 0
    /\ handler = [h \in Handlers |-> IdleHandler]
    /\ playerTable = <<>>
    /\ eloWrites = 0
    /\ netDone = {}
    /\ delta = <<>>

InitTour ==
    /\ match_counter = 1
    /\ table = <<>>
    /\ replay_bucket = {}
    /\ errlog_bucket = {}
    /\ scrimmage_table = {}
    /\ EngineUnset
    /\ ScrimIdle
    /\ TourIdle
    /\ UnrankedIdle
    /\ CounterIdle
    /\ StepsIdle

MatchIds == 1..(match_counter - 1)

NextTour ==
    \/ \E order \in MapOrders : SetupGameEngine(order, "ok")
    \/ \E n \in 0..MaxTourneyPlayers, spots \in SpotChoices : RunTournament(n, spots)
    \/ TourSeed
    \/ TourLayerStart
    \/ \E i \in 1..MaxTourneyPlayers : PairSend(i)
    \/ \E i \in 1..MaxTourneyPlayers : PairAcquire(i)
    \/ \E mid \in MatchIds : run_tournament_callback(mid)
    \/ TourLayerEnd
    \/ TourFinish

SpecTour == InitTour /\ [][NextTour]_vars

\* --------------------------------------------------- tournament: claims
\* Matches of pairing i of the running layer whose callback has not come yet.
Outstanding(i) == { mid \in tjobs : tcallbacks[mid] = <<layerIdx, i>> }

PlayedPairings == { i \in DOMAIN pairups : pairups[i].p1 # None /\ pairups[i].p2 # None }

\* How many of the first n entries of the map winners ws are who
WinsIn(ws, who, n) == Cardinality({ j \in 1..n : ws[j] = who })

\* The pairings of the bracket document that were played, as <<layer, index>>
PlayedDocs ==
    { d \in { <<l, j>> : l \in 1..Len(bracket), j \in 1..MaxTourneyPlayers } :
        /\ d[2] <= Len(bracket[d[1]])
        /\ "overall_winner" \in DOMAIN bracket[d[1]][d[2]] }

DocWinner(doc) == IF "overall_winner" \in DOMAIN doc THEN doc.overall_winner ELSE doc.winner

RealPlayers == { j \in DOMAIN tplayers : tplayers[j] # None }

\* C6: in a pairing the job of map k+1 is submitted only after the callback of
\* map k has released the semaphore: at most one match of the pairing is
\* outstanding, and replayLocs and matchWinners hold one entry per map played,
\* in map order.
C6_SeriesSequential ==
    \A i \in PlayedPairings :
        LET r == pairups[i] IN
        /\ Cardinality(Outstanding(i)) <= 1
        /\ Outstanding(i) # {} => r.sem = 0
        /\ Len(r.sent) <= Len(r.matchWinners) + 1
        /\ Len(r.matchWinners) <= Len(r.sent)
        /\ Len(r.replayLocs) = Len(r.matchWinners)
        /\ r.pc = "returned" => Len(r.matchWinners) = Len(r.sent)
        /\ \A k \in 1..Len(r.matchWinners) :
              /\ r.matchWinners[k] = toutcome[r.sent[k]]
              /\ r.replayLocs[k] = IF toutcome[r.sent[k]] > 0
                                   THEN ReplayUrl(r.sent[k]) ELSE FailedLoc

C6_Witness ==
    \E i \in PlayedPairings :
        /\ pairups[i].pc = "returned"
        /\ pairups[i].matchWinners = <<2, -1, 1>>

\* C7 as stated: no map of a series is dispatched once a player has reached
\* nmaps / 2 + 1 wins.
C7_StopsAtRequiredWins ==
    \A i \in PlayedPairings :
        LET r == pairups[i] IN
        \A k \in 1..Len(r.sent) :
            /\ WinsIn(r.matchWinners, 1, k - 1) < (r.nmaps \div 2) + 1
            /\ WinsIn(r.matchWinners, 2, k - 1) < (r.nmaps \div 2) + 1

\* C7 as the code has it: a pairing dispatches every map of its list, one after
\* the other and whatever the score, and returns only after the callback of the
\* last one; its winner is player 1 unless player 2 has won more maps.
C7_AllMapsPlayed ==
    \A i \in PlayedPairings :
        LET r == pairups[i] IN
        /\ Len(r.sent) <= r.nmaps
        /\ r.pc = "returned" =>
              /\ Len(r.sent) = r.nmaps
              /\ Len(r.matchWinners) = r.nmaps
              /\ r.p1wins = WinsIn(r.matchWinners, 1, r.nmaps)
              /\ r.p2wins = WinsIn(r.matchWinners, 2, r.nmaps)
              /\ r.result[2] = IF r.p1wins >= r.p2wins THEN r.p1 ELSE r.p2

C7_Witness ==
    \E i \in PlayedPairings :
        /\ pairups[i].pc = "returned"
        /\ pairups[i].nmaps = 3
        /\ pairups[i].matchWinners[1] = 1
        /\ pairups[i].matchWinners[2] = 1
        /\ Len(pairups[i].sent) = 3

\* C8 as stated: every series has an odd number of maps and the overall winner
\* has strictly more map wins than the other player, failed maps included.
C8_WinnerStrictlyAhead ==
    \A d \in PlayedDocs :
        LET doc == bracket[d[1]][d[2]]
            n   == Len(doc.map_winners)
        IN  /\ n % 2 = 1
            /\ doc.overall_winner = doc.player1
                  => WinsIn(doc.map_winners, 1, n) > WinsIn(doc.map_winners, 2, n)
            /\ doc.overall_winner = doc.player2
                  => WinsIn(doc.map_winners, 2, n) > WinsIn(doc.map_winners, 1, n)

\* C8 as the code has it: every series has an odd number of maps and the overall
\* winner has at least as many map wins as the other player, strictly more when
\* no map of the series failed; on equal wins player 1 is the overall winner.
C8_WinnerNotBehind ==
    \A d \in PlayedDocs :
        LET doc == bracket[d[1]][d[2]]
            n   == Len(doc.map_winners)
            w1  == WinsIn(doc.map_winners, 1, n)
            w2  == WinsIn(doc.map_winners, 2, n)
        IN  /\ n % 2 = 1
            /\ doc.overall_winner \in {doc.player1, doc.player2}
            /\ doc.overall_winner = doc.player1 => w1 >= w2
            /\ doc.overall_winner = doc.player2 => w2 > w1
            /\ WinsIn(doc.map_winners, -1, n) = 0 => w1 # w2

C8_Witness ==
    \E d \in PlayedDocs :
        /\ bracket[d[1]][d[2]].map_winners = <<2, 1, -1>>
        /\ bracket[d[1]][d[2]].overall_winner = bracket[d[1]][d[2]].player1

\* C9: in the bracket of a completed tournament of 2 or more players the last
\* layer has one pairing, every layer has half the pairings of the one before,
\* and the winner of the last pairing is a player of exactly one pairing of
\* every earlier layer, and the winner of that pairing.
C9_BracketShape ==
    (tpc = "done" /\ Cardinality(RealPlayers) >= 2) =>
        LET L == Len(bracket) IN
        /\ L >= 1
        /\ Len(bracket[L]) = 1
        /\ \A l \in 1..(L - 1) : Len(bracket[l]) = 2 * Len(bracket[l + 1])
        /\ \A l \in 1..(L - 1) :
              LET with == { j \in 1..Len(bracket[l]) :
                              DocWinner(bracket[L][1])
                                 \in {bracket[l][j].player1, bracket[l][j].player2} }
              IN  /\ Cardinality(with) = 1
                  /\ \A j \in with : DocWinner(bracket[l][j]) = DocWinner(bracket[L][1])

C9_Witness ==
    /\ tpc = "done"
    /\ Cardinality(RealPlayers) >= 3
    /\ Len(bracket) >= 2
    /\ Len(bracket[1]) = 2 * Len(bracket[2])

\* C10: for every number of players n >= 2, bye pairings occur in round 1 only,
\* no pairing has None on both sides, and every layer after round 1 holds real
\* players only.
C10_ByesOnlyInRoundOne ==
    Cardinality(RealPlayers) >= 2 =>
        /\ \A i \in DOMAIN pairups :
              /\ pairups[i].pc # "assert"
              /\ ~(pairups[i].p1 = None /\ pairups[i].p2 = None)
        /\ layerIdx >= 1 => \A j \in DOMAIN tlayer : tlayer[j] # None
        /\ (tpc = "wait" /\ layerIdx >= 1) => PlayedPairings = DOMAIN pairups
        /\ \A l \in 2..Len(bracket) : \A j \in 1..Len(bracket[l]) :
              /\ bracket[l][j].player2 # "bye"
              /\ "overall_winner" \in DOMAIN bracket[l][j]

C10_Witness ==
    /\ tpc = "done"
    /\ Len(bracket) >= 2
    /\ \E j \in 1..Len(bracket[1]) : bracket[1][j].player2 = "bye"

\* The real players of the pairings of round 1
Round1Players ==
    ({ pairups[i].p1 : i \in DOMAIN pairups } \cup { pairups[i].p2 : i \in DOMAIN pairups })
        \ {None}

\* C11: the real players of round 1 are the min(num_tournament_spots, number of
\* submitted users with a rating row) highest-rated ones.
C11_TopSpotsOnly ==
    (tpc = "wait" /\ layerIdx = 0) =>
        Round1Players =
            { UserNames[j] : j \in 1..Min(num_tournament_spots, Cardinality(RealPlayers)) }

\* ------------------------------------------------------- callback bodies
\* decode_replay.header, and the two forfeit lines of the runner's output
header == "====== BEGIN REPLAY HERE ======"
RedBroken == "===== RED BROKEN ====="
BlueBroken == "===== BLUE BROKEN ====="

\* Lines that may follow the header
RedWins == "{\"winner\": \"red\"}"
BlueWins == "{\"winner\": \"blue\"}"
GreenWins == "{\"winner\": \"green\"}"
NotJson == "Traceback (most recent call last):"

\* The callback bodies the runner posts, as file.decode("utf-8").splitlines():
\* a replay after build output, two replays, a winner that is neither colour,
\* a replay line that is no JSON, a header with nothing after it, output
\* without any marker, an empty body, and the two forfeit lines.
Bodies ==
    { <<NotJson, header, RedWins>>, <<header, BlueWins>>,
      <<header, RedWins, header, BlueWins>>,
      <<header, GreenWins>>, <<header, NotJson>>, <<NotJson, header>>,
      <<NotJson>>, <<>>,
      <<NotJson, RedBroken>>, <<BlueBroken>> }

Raised == [raised |-> TRUE, line |-> ""]

\* decode_replay.parse_tango_output: the line after the first header line;
\* FailedReplayException without a header, IndexError when the header is last
parse_tango_output(lines) ==
    LET at == { i \in 1..Len(lines) : lines[i] = header } IN
    IF at = {} THEN Raised
    ELSE LET i == CHOOSE j \in at : \A k \in at : j <= k IN
         IF i + 1 > Len(lines) THEN Raised
         ELSE [raised |-> FALSE, line |-> lines[i + 1]]

\* json.loads(replay_line)["winner"]; "raise" for a line that is no JSON object
replay_winner(line) ==
    CASE line = RedWins -> "red"
      [] line = BlueWins -> "blue"
      [] line = GreenWins -> "green"
      [] OTHER -> "raise"

\* StorageHandler.process_replay: the winner, -1 for a raise (nothing is
\* uploaded then: the upload comes after the winner test)
process_replay(tango_output) ==
    LET replay == parse_tango_output(tango_output) IN
    IF replay.raised THEN -1
    ELSE CASE replay_winner(replay.line) = "red" -> 1
           [] replay_winner(replay.line) = "blue" -> 2
           [] OTHER -> -1

\* decode_replay.make_errlog_name
make_errlog_name(filename) == <<"failed", filename>>

\* ------------------------------------------------------ unranked matches
\* Unranked matches requested in one run.
MaxUnranked == 2

UIdle == [pc |-> "idle", mid |-> 0, file |-> <<>>, winner |-> 0]

\* (variant: num_players is not compared with the submissions)
RequestAcceptedUncounted(match) ==
    /\ app_engine # <<>>
    /\ app_maps # <<>>
    /\ match.game_engine_name = EngineName
    /\ match.user_submissions = EngineNumPlayers

\* run_single_match: none of the four tests raises HTTPException(400)
RequestAccepted(match) ==
    /\ ~(app_engine = <<>> \/ app_maps = <<>>)
    /\ ~(match.game_engine_name # EngineName)
    /\ ~(match.user_submissions # EngineNumPlayers)
    /\ ~(match.num_players # match.user_submissions)

\* sendJob: insert_pending_match_into_table is reached
RowInserted(send) == send \in {"ok", "add_job_fails"}

\* (variant: the runner has the job although add_job raised)
JobSubmittedAnyway(send) == send \in {"ok", "add_job_fails"}

\* Tango.add_job: the POST went through, the runner has the job
JobSubmitted(send) == send = "ok"

\* POST /match: run_single_match.  The four tests, then
\* MatchRunner(next(app.match_counter)) and sendJob: downloads and uploads,
\* pending row, add_job.  A raise inside sendJob leaves the handler as a 500.
run_single_match(match, send) ==
    /\ IF RequestAccepted(match)
       THEN /\ match_counter <= MaxUnranked
            /\ match_counter' = match_counter + 1
            /\ table' = IF RowInserted(send)
                        THEN (match_counter :> PendingRow) @@ table
                        ELSE table
            /\ ujobs' = IF JobSubmitted(send) THEN ujobs \cup {match_counter} ELSE ujobs
            /\ mresponse' = [req |-> match, send |-> send,
                             status |-> IF send = "ok" THEN 200 ELSE 500]
       ELSE /\ mresponse' = [req |-> match, send |-> "none", status |-> 400]
            /\ UNCHANGED <<match_counter, table, ujobs>>
    /\ UNCHANGED <<scrimVars, tourVars, replay_bucket, engineVars, registryVars,
                   uhandler, uresponse, counterVars, errlog_bucket, tlock, tfire, poolVars>>

\* run_single_match_callback, the try block up to process_replay: on a
\* winner the replay line is uploaded as unranked-{match_id}.json
SingleMatchRecv(h) ==
    /\ uhandler[h].pc = "idle"
    /\ \A g \in Handlers : g < h => uhandler[g].pc # "idle"
    /\ \E mid \in ujobs, file \in Bodies :
        /\ ujobs' = ujobs \ {mid}
        /\ replay_bucket' = IF process_replay(file) > 0
                            THEN replay_bucket \cup {ReplayName("unranked", mid)}
                            ELSE replay_bucket
        /\ uhandler' = [uhandler EXCEPT ![h] =
                          [pc |-> "update", mid |-> mid, file |-> file,
                           winner |-> process_replay(file)]]
    /\ UNCHANGED <<sharedVars, scrimVars, tourVars, engineVars, registryVars,
                   uresponse, counterVars, errlog_bucket, stepVars, poolVars>>

\* run_single_match_callback, the rest: update_finished_match_in_table and
\* a normal return, or in the except branch update_failed_match_in_table and
\* HTTPException(400)
SingleMatchFinish(h) ==
    /\ uhandler[h].pc = "update"
    /\ LET mid == uhandler[h].mid
           winner == uhandler[h].winner
       IN  IF winner > 0
           THEN /\ table' = [table EXCEPT ![mid] =
                               FinishedRow(@, IF winner = 1 THEN "team1" ELSE "team2", 0,
                                           ReplayName("unranked", mid))]
                /\ uresponse' = (mid :> 200) @@ uresponse
           ELSE /\ table' = [table EXCEPT ![mid] = FailedRow(@)]
                /\ uresponse' = (mid :> 400) @@ uresponse
    /\ uhandler' = [uhandler EXCEPT ![h] = UIdle]
    /\ UNCHANGED <<match_counter, scrimVars, tourVars, replay_bucket, engineVars, registryVars,
                   ujobs, counterVars, errlog_bucket, stepVars, poolVars>>

InitUnranked ==
    /\ match_counter = 1
    /\ table = <<>>
    /\ replay_bucket = {}
    /\ errlog_bucket = {}
    /\ scrimmage_table = {}
    /\ EngineUnset
    /\ ScrimIdle
    /\ TourIdle
    /\ ujobs = {}
    /\ uhandler = [h \in Handlers |-> UIdle]
    /\ uresponse = <<>>
    /\ CounterIdle
    /\ StepsIdle

NextUnranked ==
    \/ \E order \in MapOrders, tango \in TangoUploads : SetupGameEngine(order, tango)
    \/ run_single_match(ValidMatch, "ok")
    \/ \E h \in Handlers : SingleMatchRecv(h)
    \/ \E h \in Handlers : SingleMatchFinish(h)

SpecUnranked == InitUnranked /\ [][NextUnranked]_vars

\* -------------------------------------------------- callback bodies: claims
\* A forfeit line stands in place of the replay header
IsForfeit(file) ==
    /\ \E i \in 1..Len(file) : file[i] \in {RedBroken, BlueBroken}
    /\ \A i \in 1..Len(file) : file[i] # header

\* The side that did not break: blue (team2) for RED BROKEN, red (team1) for BLUE BROKEN
ForfeitOutcome(file) ==
    IF \E i \in 1..Len(file) : file[i] = RedBroken THEN "team2" ELSE "team1"

\* The unranked callback handlers that return in this step
Returning(h) == uhandler[h].pc = "update" /\ uhandler'[h].pc = "idle"

\* C12: a callback whose body has a forfeit line in place of the header ends
\* with the record FINISHED, the other side as the outcome, and the raw output
\* in the error-log bucket.
C12_ForfeitDeclaresOpponent ==
    [][\A h \in Handlers :
          (Returning(h) /\ IsForfeit(uhandler[h].file)) =>
             LET mid == uhandler[h].mid IN
             /\ table'[mid].status = "finished"
             /\ table'[mid].outcome = ForfeitOutcome(uhandler[h].file)
             /\ make_errlog_name(ReplayName("unranked", mid)) \in errlog_bucket']_vars

\* C13: a callback whose body does not parse (no header or forfeit line, a
\* replay line that is no JSON, a winner other than red or blue) ends with the
\* record FAILED, the raw bytes in the error-log bucket, nothing in the replay
\* bucket, and HTTP 400.
C13_ParseFailureHandled ==
    [][\A h \in Handlers :
          (Returning(h) /\ process_replay(uhandler[h].file) < 0 /\ ~IsForfeit(uhandler[h].file)) =>
             LET mid == uhandler[h].mid IN
             /\ table'[mid].status = "failed"
             /\ make_errlog_name(ReplayName("unranked", mid)) \in errlog_bucket'
             /\ ReplayName("unranked", mid) \notin replay_bucket'
             /\ uresponse'[mid] = 400]_vars

\* ------------------------------------------- records and registries: claims
\* outcome="team" + str(winner)
TeamOf(winner) == IF winner = 1 THEN "team1" ELSE IF winner = 2 THEN "team2" ELSE "none"

\* C14: a scrimmage record is written FINISHED with outcome "teamX" only for a
\* match whose callback body parsed to winner X; a match whose output did not
\* parse to a winner is not written FINISHED with an outcome.
C14_FinishedOutcomeIsParsedWinner ==
    [][\A h \in Handlers :
          (handler[h].pc = "fin" /\ handler'[h].pc # "fin"
              /\ table'[handler[h].mid].status = "finished")
             => table'[handler[h].mid].outcome = TeamOf(handler[h].winner)]_vars

\* No callback handler is between its first and its last step
NoHandlerRunning ==
    /\ \A h \in DOMAIN handler : handler[h].pc = "idle"
    /\ \A h \in DOMAIN uhandler : uhandler[h].pc = "idle"

\* The FINISHED records that name the replay object
RecordsOf(name) ==
    { mid \in DOMAIN table :
        table[mid].replay_filename = name /\ table[mid].status = "finished" }

C17_RegistryEntryWhileRunning ==
    /\ tpc \in {"seed", "layer", "wait"} => tournament_id \in tourney_table
    /\ tpc = "done" => tournament_id \notin tourney_table
    /\ (spc \in {"start", "dispatch", "done"} /\ eloWrites = 0) => scrimmage_id \in scrimmage_table
    /\ eloWrites >= 1 => scrimmage_id \notin scrimmage_table

\* C18: the engine descriptor, the engine file handle, the makefile handle and
\* the map selection of the registry are all of the same engine upload (or all
\* unset), whatever uploads were accepted or rejected before.
C18_RegistryOfOneUpload ==
    /\ app_engine_filename = app_engine
    /\ app_makefile = app_engine
    /\ app_maps = app_engine

\* ---------------------------------------------------------- AtomicCounter
\* Threads that call next(app.match_counter) at the same time (request
\* handlers of /match, scrimmage workers, tournament pairing threads), and
\* the calls each makes.
MaxCallers == 3
MaxCalls == 2

Callers == 1..MaxCallers

CallerIdle == [pc |-> "idle", val |-> 0, got |-> <<>>]

\* (variant: __next__ without the lock)
LockIgnored(l) == TRUE

\* Lock.acquire returns only when no thread holds the lock
LockFree(l) == l = 0

\* AtomicCounter.__next__: `with self.lock:` entered
CounterAcquire(c) ==
    /\ caller[c].pc = "idle"
    /\ Len(caller[c].got) < MaxCalls
    /\ LockFree(lock)
    /\ lock' = c
    /\ caller' = [caller EXCEPT ![c].pc = "locked"]
    /\ UNCHANGED <<sharedVars, scrimVars, tourVars, replay_bucket, engineVars, registryVars,
                   unrankedVars, errlog_bucket, stepVars, poolVars>>

\* val = self.next_val
CounterRead(c) ==
    /\ caller[c].pc = "locked"
    /\ caller' = [caller EXCEPT ![c].pc = "read", ![c].val = match_counter]
    /\ UNCHANGED <<sharedVars, scrimVars, tourVars, replay_bucket, engineVars, registryVars,
                   unrankedVars, errlog_bucket, stepVars, poolVars, lock>>

\* self.next_val += 1
CounterIncr(c) ==
    /\ caller[c].pc = "read"
    /\ match_counter' = match_counter + 1
    /\ caller' = [caller EXCEPT ![c].pc = "written"]
    /\ UNCHANGED <<table, scrimVars, tourVars, replay_bucket, engineVars, registryVars,
                   unrankedVars, errlog_bucket, stepVars, poolVars, lock>>

\* the with block left, return val
CounterReturn(c) ==
    /\ caller[c].pc = "written"
    /\ lock' = 0
    /\ caller' = [caller EXCEPT ![c].pc = "idle", ![c].val = 0,
                                ![c].got = Append(@, caller[c].val)]
    /\ UNCHANGED <<sharedVars, scrimVars, tourVars, replay_bucket, engineVars, registryVars,
                   unrankedVars, errlog_bucket, stepVars, poolVars>>

InitCounter ==
    /\ match_counter = 1
    /\ table = <<>>
    /\ replay_bucket = {}
    /\ errlog_bucket = {}
    /\ scrimmage_table = {}
    /\ EngineUnset
    /\ ScrimIdle
    /\ TourIdle
    /\ UnrankedIdle
    /\ StepsIdle
    /\ lock = 0
    /\ caller = [c \in Callers |-> CallerIdle]

NextCounter ==
    \/ \E c \in Callers : CounterAcquire(c)
    \/ \E c \in Callers : CounterRead(c)
    \/ \E c \in Callers : CounterIncr(c)
    \/ \E c \in Callers : CounterReturn(c)

SpecCounter == InitCounter /\ [][NextCounter]_vars

\* C16: the ids the counter hands to concurrently calling threads are pairwise
\* distinct, and the ids one thread gets in successive calls are strictly
\* increasing.
C16_IdsDistinctAndIncreasing ==
    /\ \A c \in Callers : \A i, j \in 1..Len(caller[c].got) :
          i < j => caller[c].got[i] < caller[c].got[j]
    /\ \A c, d \in Callers : c # d =>
          \A i \in 1..Len(caller[c].got), j \in 1..Len(caller[d].got) :
              caller[c].got[i] # caller[d].got[j]

C16_Witness ==
    \E c, d \in Callers :
        /\ c # d
        /\ Len(caller[c].got) = 2
        /\ Len(caller[d].got) = 2
        /\ caller[c].got[1] < caller[d].got[1]
        /\ caller[d].got[1] < caller[c].got[2]
        /\ caller[c].got[2] < caller[d].got[2]

\* ------------------------------------------------- the pairing set alone
\* Most rated players of a scrimmage whose pairing set is computed.
MaxScrimPlayers == 7

\* current_rating values of the player table
RatingValues == {1400, 1450, 1500, 1550, 1600, 1650}

\* The lists get_match_players_info can return: 3 to MaxScrimPlayers players,
\* sorted by rating, descending
SortedRatings ==
    UNION { { ps \in [1..n -> RatingValues] : \A i \in 1..(n - 1) : ps[i] >= ps[i + 1] }
            : n \in 3..MaxScrimPlayers }

\* A scrimmage thread started on any such list; only the pairing set is computed.
InitSchedule ==
    /\ match_counter = 1
    /\ table = <<>>
    /\ players \in SortedRatings
    /\ spc = "start"
    /\ toSend = {}
    /\ callbacks = <<>>
    /\ jobs = {}
    /\ net_elo_changes = <<>>
    /\ matches_left = 0
    /\ handler = [h \in Handlers |-> IdleHandler]
    /\ playerTable = players
    /\ eloWrites = 0
    /\ netDone = {}
    /\ delta = <<>>
    /\ replay_bucket = {}
    /\ errlog_bucket = {}
    /\ scrimmage_table = {scrimmage_id}
    /\ EngineSet(<<1>>)
    /\ TourIdle
    /\ UnrankedIdle
    /\ CounterIdle
    /\ StepsIdle

NextSchedule == ScrimSetup

SpecSchedule == InitSchedule /\ [][NextSchedule]_vars

\* The pairings of the set that user u is in
PairingsOf(u) == { m \in toSend : u = m[1] \/ u = m[2] }

\* C19: with exactly 4 rated players, whatever their ratings, the pairing set
\* has exactly 6 pairings and every two players meet in exactly one of them.
C19_FourPlayersRoundRobin ==
    (spc = "dispatch" /\ Len(players) = 4) =>
        /\ Cardinality(toSend) = 6
        /\ \A u, v \in Users : u # v => Cardinality(PairingsOf(u) \cap PairingsOf(v)) = 1

\* C20: with more than 5 rated players, every player is in at most num_matches
\* pairings of the set, those it chose and those it was chosen for together.
C20_AtMostKPairings ==
    (spc = "dispatch" /\ Len(players) > 5) =>
        \A u \in Users : Cardinality(PairingsOf(u)) <= num_matches

\* ------------------------------------------------ /match seen by its caller
InitMatch == InitUnranked

NextMatch ==
    \/ \E order \in MapOrders : SetupGameEngine(order, "ok")
    \/ \E match \in Requests, send \in SendResults : run_single_match(match, send)
    \/ \E h \in Handlers : SingleMatchRecv(h)
    \/ \E h \in Handlers : SingleMatchFinish(h)

SpecMatch == InitMatch /\ [][NextMatch]_vars

\* The pending row of mid has no job at the runner and no callback under way
PendingWithoutJob(mid) ==
    /\ mid \in DOMAIN table
    /\ table[mid] = PendingRow
    /\ mid \notin ujobs
    /\ \A h \in Handlers : uhandler[h].pc = "idle" \/ uhandler[h].mid # mid

\* The id mid was handed out and has no row
NoRecord(mid) == mid \in MatchIds /\ mid \notin DOMAIN table

C24_RejectedRequestHasNoEffect ==
    [][ ( /\ mresponse' # mresponse
          /\ \/ app_engine = <<>>
             \/ app_maps = <<>>
             \/ mresponse'.req.game_engine_name # EngineName
             \/ mresponse'.req.num_players # mresponse'.req.user_submissions
             \/ mresponse'.req.user_submissions # EngineNumPlayers )
        => /\ mresponse'.status = 400
           /\ UNCHANGED <<match_counter, table, ujobs, uhandler, uresponse, replay_bucket>> ]_vars

\* After a match went through, a request with one submission too few for its
\* num_players was turned down.
C24_Witness ==
    /\ mresponse.status = 400
    /\ mresponse.req.game_engine_name = EngineName
    /\ mresponse.req.num_players # mresponse.req.user_submissions
    /\ match_counter = 2
    /\ 1 \in DOMAIN table

\* ------------------------------------------------- further batch claims
\* C21: a tournament with a single participating player completes without
\* dispatching a match, and the bracket it uploads holds that player.
C21_SinglePlayerBracket ==
    (tpc = "done" /\ Len(tplayers) = 1 /\ tplayers[1] # None) =>
        /\ match_counter = 1
        /\ table = <<>>
        /\ \E l \in DOMAIN bracket : \E j \in DOMAIN bracket[l] :
              bracket[l][j].player1 = tplayers[1] \/ bracket[l][j].player2 = tplayers[1]

C27_PairingsDeduplicated ==
    spc = "dispatch" =>
        \A m \in toSend :
            /\ m[1] # m[2]
            /\ players[m[1]] <= players[m[2]]
            /\ <<m[2], m[1]>> \notin toSend

\* ------------------------------------- tournament pairing, step by step
\* TourneyPairUpRunner.start and run_tournament_callback with every call a
\* step of its own, and OngoingTourneyTable.lock held across __call__.

\* (variant: the job is submitted before the callback is registered)
DispatchOrderJobFirst == <<"create_match", "add_job", "register", "insert_pending">>

\* TourneyPairUpRunner.start, one map: create_match takes the match id,
\* parent.register, then sendJob: insert_pending_match_into_table, add_job
DispatchOrder == <<"create_match", "register", "insert_pending", "add_job">>

\* The call that follows `step` in the loop body; semaphore.acquire is last
StepAfter(step) ==
    LET at == CHOOSE k \in 1..Len(DispatchOrder) : DispatchOrder[k] = step IN
    IF at < Len(DispatchOrder) THEN DispatchOrder[at + 1] ELSE "acquire"

\* (variant: a failed match is counted as a win of player 2)
WinsAfterFailedCounts(wins, who, winner) ==
    IF winner = who \/ (who = 2 /\ winner < 0) THEN wins + 1 ELSE wins

\* TourneyPairUpRunner.__call__: `if winner == 1: p1wins += 1 elif winner == 2:
\* p2wins += 1`, seen from the count of player `who`
WinsAfter(wins, who, winner) == IF winner = who THEN wins + 1 ELSE wins

\* create_match: MatchRunner(next(self.match_counter)), next_match_id
PairCreate(i) ==
    /\ i \in DOMAIN pairups
    /\ pairups[i].pc = "send"
    /\ pairups' = [pairups EXCEPT ![i].pc = StepAfter("create_match"),
                                  ![i].next_match_id = match_counter]
    /\ match_counter' = match_counter + 1
    /\ UNCHANGED <<table, scrimVars, app_maps, tpc, match_map_order, tplayers, tlayer, layerIdx,
                   bracket, tcallbacks, tjobs, toutcome, num_tournament_spots,
                   replay_bucket, engineVars, registryVars,
                   unrankedVars, counterVars, errlog_bucket, stepVars, poolVars>>

\* parent.register(match.match_id, self), under the lock of the registry
PairRegister(i) ==
    /\ i \in DOMAIN pairups
    /\ pairups[i].pc = "register"
    /\ tlock = 0
    /\ tcallbacks' = (pairups[i].next_match_id :> <<layerIdx, i>>) @@ tcallbacks
    /\ pairups' = [pairups EXCEPT ![i].pc = StepAfter("register")]
    /\ UNCHANGED <<sharedVars, scrimVars, app_maps, tpc, match_map_order, tplayers, tlayer,
                   layerIdx, bracket, tjobs, toutcome, num_tournament_spots,
                   replay_bucket, engineVars, registryVars,
                   unrankedVars, counterVars, errlog_bucket, stepVars, poolVars>>

\* sendJob: insert_pending_match_into_table
PairInsert(i) ==
    /\ i \in DOMAIN pairups
    /\ pairups[i].pc = "insert_pending"
    /\ table' = (pairups[i].next_match_id :> PendingRow) @@ table
    /\ pairups' = [pairups EXCEPT ![i].pc = StepAfter("insert_pending")]
    /\ UNCHANGED <<match_counter, scrimVars, app_maps, tpc, match_map_order, tplayers, tlayer,
                   layerIdx, bracket, tcallbacks, tjobs, toutcome, num_tournament_spots,
                   replay_bucket, engineVars, registryVars,
                   unrankedVars, counterVars, errlog_bucket, stepVars, poolVars>>

\* sendJob: tango.add_job
PairAddJob(i) ==
    /\ i \in DOMAIN pairups
    /\ pairups[i].pc = "add_job"
    /\ tjobs' = tjobs \cup {pairups[i].next_match_id}
    /\ pairups' = [pairups EXCEPT ![i].pc = StepAfter("add_job"),
                                  ![i].sent = Append(@, pairups[i].next_match_id)]
    /\ UNCHANGED <<sharedVars, scrimVars, app_maps, tpc, match_map_order, tplayers, tlayer,
                   layerIdx, bracket, tcallbacks, toutcome, num_tournament_spots,
                   replay_bucket, engineVars, registryVars,
                   unrankedVars, counterVars, errlog_bucket, stepVars, poolVars>>

\* run_tournament_callback up to the call of the registry: process_replay,
\* in the except branch update_failed_match_in_table
TourCallbackRecv(mid) ==
    /\ mid \in tjobs
    /\ tjobs' = tjobs \ {mid}
    /\ \E parsed \in ParseResults :
        LET winner == CallbackOutcome(parsed) IN
        /\ toutcome' = (mid :> winner) @@ toutcome
        /\ tfire' = (mid :> [pc |-> "call", winner |-> winner]) @@ tfire
        /\ IF winner > 0
           THEN /\ replay_bucket' = replay_bucket \cup {ReplayName("tournament", mid)}
                /\ table' = table
           ELSE /\ replay_bucket' = replay_bucket
                /\ table' = [table EXCEPT ![mid] = FailedRow(@)]
    /\ UNCHANGED <<match_counter, scrimVars, app_maps, tpc, match_map_order, tplayers, tlayer,
                   layerIdx, pairups, bracket, tcallbacks, num_tournament_spots,
                   engineVars, registryVars,
                   unrankedVars, counterVars, errlog_bucket, mresponse, tlock, poolVars>>

\* OngoingTourneyTable.__call__: take the lock, look the pairing up, run
\* TourneyPairUpRunner.__call__ down to semaphore.release()
TourFire(mid) ==
    /\ mid \in DOMAIN tfire
    /\ tfire[mid].pc = "call"
    /\ tlock = 0
    /\ tlock' = mid
    /\ tfire' = [tfire EXCEPT ![mid].pc = "exit"]
    /\ LET i == tcallbacks[mid][2]
           r == pairups[i]
           winner == tfire[mid].winner
       IN  /\ pairups' = [pairups EXCEPT ![i] =
                 [r EXCEPT !.p1wins = WinsAfter(r.p1wins, 1, winner),
                           !.p2wins = WinsAfter(r.p2wins, 2, winner),
                           !.replayLocs = Append(r.replayLocs,
                                                 IF winner > 0 THEN ReplayUrl(mid) ELSE FailedLoc),
                           !.matchWinners = Append(r.matchWinners, IF winner > 0 THEN winner ELSE -1),
                           !.sem = r.sem + 1]]
           /\ table' = IF winner > 0
                       THEN [table EXCEPT ![r.next_match_id] =
                               FinishedRow(@, IF winner = 1 THEN "team1" ELSE "team2", 0,
                                           ReplayName("tournament", mid))]
                       ELSE table
    /\ UNCHANGED <<match_counter, scrimVars, app_maps, tpc, match_map_order, tplayers, tlayer,
                   layerIdx, bracket, tcallbacks, tjobs, toutcome, num_tournament_spots,
                   replay_bucket, engineVars, registryVars,
                   unrankedVars, counterVars, errlog_bucket, mresponse, poolVars>>

\* OngoingTourneyTable.__call__: the end of the with block gives the lock back
TourFireExit(mid) ==
    /\ mid \in DOMAIN tfire
    /\ tfire[mid].pc = "exit"
    /\ tlock' = 0
    /\ tfire' = [tfire EXCEPT ![mid].pc = "done"]
    /\ UNCHANGED <<sharedVars, scrimVars, tourVars, replay_bucket, engineVars, registryVars,
                   unrankedVars, counterVars, errlog_bucket, mresponse, poolVars>>

\* The engine of a two-layer map order is set; no batch has been requested.
InitTourSteps ==
    /\ match_counter = 1
    /\ table = <<>>
    /\ replay_bucket = {}
    /\ errlog_bucket = {}
    /\ scrimmage_table = {}
    /\ EngineSet(<<1, 3>>)
    /\ ScrimIdle
    /\ TourIdle
    /\ UnrankedIdle
    /\ CounterIdle
    /\ StepsIdle

NextTourSteps ==
    \/ \E n \in 0..MaxTourneyPlayers : RunTournament(n, MaxTourneyPlayers)
    \/ TourSeed
    \/ TourLayerStart
    \/ \E i \in 1..MaxTourneyPlayers : PairCreate(i)
    \/ \E i \in 1..MaxTourneyPlayers : PairRegister(i)
    \/ \E i \in 1..MaxTourneyPlayers : PairInsert(i)
    \/ \E i \in 1..MaxTourneyPlayers : PairAddJob(i)
    \/ \E i \in 1..MaxTourneyPlayers : PairAcquire(i)
    \/ \E mid \in MatchIds : TourCallbackRecv(mid)
    \/ \E mid \in MatchIds : TourFire(mid)
    \/ \E mid \in MatchIds : TourFireExit(mid)
    \/ TourLayerEnd
    \/ TourFinish

SpecTourSteps == InitTourSteps /\ [][NextTourSteps]_vars

\* Match ids whose callback can arrive or has arrived and not yet been fired
CallbackDue == tjobs \cup { mid \in DOMAIN tfire : tfire[mid].pc = "call" }

C26_RegistryAccessUnderLock == [][tcallbacks' # tcallbacks => tlock = 0]_vars

\* C29: the callback of a failed match leaves both win counts as they are,
\* appends "failed" to the replay list and -1 to map_winners, and releases
\* the semaphore once, on which the pairing was waiting without a permit.
C29_FailedMatchInSeries ==
    [][ \A mid \in DOMAIN tfire :
          (tfire[mid].pc = "call" /\ tfire'[mid].pc = "exit" /\ tfire[mid].winner < 0)
          => LET i == tcallbacks[mid][2] IN
             /\ pairups'[i].p1wins = pairups[i].p1wins
             /\ pairups'[i].p2wins = pairups[i].p2wins
             /\ pairups'[i].replayLocs = Append(pairups[i].replayLocs, FailedLoc)
             /\ pairups'[i].matchWinners = Append(pairups[i].matchWinners, -1)
             /\ pairups[i].sem = 0
             /\ pairups'[i].sem = 1
             /\ pairups[i].pc = "acquire" ]_vars

\* A series whose first match failed went on to its second and third map
C29_Witness ==
    \E i \in DOMAIN pairups :
        /\ pairups[i].nmaps = 3
        /\ Len(pairups[i].matchWinners) = 3
        /\ pairups[i].matchWinners[1] = -1
        /\ pairups[i].replayLocs[1] = FailedLoc
        /\ pairups[i].p1wins + pairups[i].p2wins = 2

\* C30: a pairing with a bye has returned its present player as soon as the
\* layer starts: it has no match id, no registry entry, no job, no permit
\* taken or given, and its bracket entry has player2 "bye" and no replay.
C30_ByeReturnsAtOnce ==
    tpc = "wait" =>
        \A i \in DOMAIN pairups :
            LET r == pairups[i]
                present == IF r.p1 = None THEN r.p2 ELSE r.p1
            IN  ((r.p1 = None) # (r.p2 = None)) =>
                /\ r.pc = "returned"
                /\ r.result[2] = present
                /\ r.result[1].player1 = present
                /\ r.result[1].player2 = "bye"
                /\ r.result[1].replay_filename = <<>>
                /\ r.next_match_id = -1
                /\ r.sent = <<>>
                /\ r.sem = 0
                /\ \A mid \in DOMAIN tcallbacks : tcallbacks[mid] # <<layerIdx, i>>

\* A bye has returned while the other pairing of the layer waits on its semaphore
C30_Witness ==
    /\ tpc = "wait"
    /\ \E i, j \in DOMAIN pairups :
          /\ pairups[i].p2 = None
          /\ pairups[i].pc = "returned"
          /\ pairups[j].pc = "acquire"
          /\ pairups[j].sem = 0

\* ------------------------------------------------ seeding of the bracket
\* Rounds of the largest bracket seeded: up to 2^MaxRounds players.
MaxRounds == 3

RECURSIVE Pow2(_)
Pow2(k) == IF k = 0 THEN 1 ELSE 2 * Pow2(k - 1)

\* What start returns for the pairing of p1 and p2 when side w wins the
\* series; the matches of the series are left out
PairingResult(p1, p2, w) ==
    IF p1 = None \/ p2 = None
    THEN StartPairing(NewPairing(p1, p2, 1)).result
    ELSE << [player1 |-> p1, player2 |-> p2,
             overall_winner |-> IF w = 1 THEN p1 ELSE p2,
             replay_filename |-> <<>>, map_winners |-> <<>>],
            IF w = 1 THEN p1 ELSE p2 >>

\* One pass of the layer loop of tournament_worker_thread, the pairings seen
\* by their results: pair curr_tournament_layer[i] with [i + 1], collect the
\* results, reorder them, keep the winners.  w[j] is the side that wins
\* pairing j.
LayerPlayed(w) ==
    /\ tpc = "layer"
    /\ LayerLoopContinues(Len(tlayer))
    /\ LET raw_results == [j \in 1..(Len(tlayer) \div 2) |->
                             PairingResult(tlayer[2 * j - 1], tlayer[2 * j], w[j])]
           results == ReorderResults(raw_results)
       IN  /\ tlayer' = [i \in DOMAIN results |-> results[i][2]]
           /\ bracket' = Append(bracket, [i \in DOMAIN results |-> results[i][1]])
    /\ layerIdx' = layerIdx + 1
    /\ UNCHANGED <<sharedVars, scrimVars, app_maps, tpc, match_map_order, tplayers, pairups,
                   tcallbacks, tjobs, toutcome,
                   restVars, engineVars, registryVars, replay_bucket, num_tournament_spots>>

InitSeed == InitTourSteps

NextSeed ==
    \/ \E n \in 0..Pow2(MaxRounds) : RunTournament(n, n)
    \/ TourSeed
    \/ \E w \in [1..(Len(tlayer) \div 2) -> {1, 2}] : LayerPlayed(w)
    \/ TourFinish

SpecSeed == InitSeed /\ [][NextSeed]_vars

\* Seed of a player: its place in the rating order
SeedOf(name) == CHOOSE i \in 1..Len(UserNames) : UserNames[i] = name

\* The bracket has 2^k players, no bye
FullBracket == \A j \in DOMAIN tplayers : tplayers[j] # None

\* In every pairing played so far the better seed won
BetterSeedWon ==
    \A l \in DOMAIN bracket : \A j \in DOMAIN bracket[l] :
        LET doc == bracket[l][j] IN
        SeedOf(doc.overall_winner) = Min(SeedOf(doc.player1), SeedOf(doc.player2))

\* C28: in a bracket of 2^k seeded players round 1 pairs seed i with seed
\* 2^k + 1 - i, and as long as the better seed has won every pairing each
\* later layer pairs the best remaining seed with the worst remaining, the
\* second best with the second worst and so on; seeds 1 and 2 are paired in
\* the final only.
C28_SeedingPreserved ==
    (tpc = "layer" /\ FullBracket /\ BetterSeedWon) =>
        LET m == Len(tlayer) IN
        /\ \A j \in 1..(m \div 2) :
              /\ tlayer[2 * j - 1] = UserNames[j]
              /\ tlayer[2 * j] = UserNames[m + 1 - j]
        /\ \A j \in 1..(m \div 2) :
              {tlayer[2 * j - 1], tlayer[2 * j]} = {UserNames[1], UserNames[2]} => m = 2
        /\ \A l \in DOMAIN bracket : \A j \in DOMAIN bracket[l] :
              {bracket[l][j].player1, bracket[l][j].player2} = {UserNames[1], UserNames[2]}
                 => Len(bracket[l]) = 1

\* Eight players after a first round without upset: 1 meets 4, 2 meets 3
C28_Witness ==
    /\ tpc = "layer"
    /\ Len(tplayers) = 8
    /\ FullBracket
    /\ BetterSeedWon
    /\ layerIdx = 1
    /\ tlayer = << UserNames[1], UserNames[4], UserNames[2], UserNames[3] >>

\* ------------------------------------------- the failed-match update alone
\* No batch, no unranked match and no counter call is under way.
Quiet ==
    /\ replay_bucket = {}
    /\ errlog_bucket = {}
    /\ scrimmage_table = {}
    /\ ScrimIdle
    /\ TourIdle
    /\ UnrankedIdle
    /\ CounterIdle
    /\ StepsIdle

\* MatchType values and the map names of the records drawn below
MatchTypes == {"unranked", "ranked", "tournament"}
MapNames == {"map_a", "map_b"}

\* The item insert_pending_match_into_table puts: the columns of PendingRow
\* and TEAM_1, TEAM_2, MATCH_TYPE, MAP_NAME
InsertedRow(team_1, team_2, kind, map_name) ==
    [status |-> "pending", outcome |-> "", elo_change |-> 0, replay_filename |-> NoFile,
     replay_url |-> NoUrl,
     team_1 |-> team_1, team_2 |-> team_2, kind |-> kind, map_name |-> map_name]

\* Records the table can hold under match id 1: inserted, then left pending,
\* finished by a callback, or marked failed by one.
StoredRows ==
    LET inserted == { InsertedRow(UserNames[a], UserNames[b], kind, m) :
                        a \in 1..3, b \in 1..3, kind \in MatchTypes, m \in MapNames }
    IN  inserted
        \cup { FinishedRow(r, o, e, ReplayName(r.kind, 1)) :
                 r \in inserted, o \in {"team1", "team2"}, e \in {0, 10} }
        \cup { FailedRow(r) : r \in inserted }

\* StorageHandler.update_failed_match_in_table(MatchTableSchema(mid))
update_failed_match_in_table(mid) ==
    /\ mid \in DOMAIN table
    /\ mresponse = NoResponse
    /\ table' = [table EXCEPT ![mid] = FailedRow(@)]
    /\ mresponse' = [NoResponse EXCEPT !.send = "update_failed"]
    /\ UNCHANGED <<match_counter, scrimVars, tourVars, replay_bucket, engineVars, registryVars,
                   unrankedVars, counterVars, errlog_bucket, tlock, tfire, poolVars>>

InitRow ==
    /\ match_counter = 2
    /\ \E row \in StoredRows : table = (1 :> row)
    /\ EngineUnset
    /\ Quiet

NextRow == update_failed_match_in_table(1)

SpecRow == InitRow /\ [][NextRow]_vars

\* C32: update_failed_match_in_table leaves team_1, team_2, kind, outcome,
\* elo_change, replay_filename, replay_url and map_name of the record as they
\* were and sets its status to FAILED (last_updated, a wall-clock stamp, is not
\* modelled).
C32_FailedUpdateFrame ==
    [][\A mid \in DOMAIN table :
          table'[mid] # table[mid] =>
              /\ table'[mid].status = "failed"
              /\ table'[mid].team_1 = table[mid].team_1
              /\ table'[mid].team_2 = table[mid].team_2
              /\ table'[mid].kind = table[mid].kind
              /\ table'[mid].outcome = table[mid].outcome
              /\ table'[mid].elo_change = table[mid].elo_change
              /\ table'[mid].replay_filename = table[mid].replay_filename
              /\ table'[mid].replay_url = table[mid].replay_url
              /\ table'[mid].map_name = table[mid].map_name]_vars

\* ------------------------------------------------ the counter seed at startup
\* Items one Table.scan call returns at most (its page: 1 MB of items read).
ScanPageItems == 1

\* Records of earlier runs found in the table at startup: finished unranked
\* matches under some of the ids 1..ScanPageItems + 1
StoredTables ==
    LET old(mid) == FinishedRow(PendingRow, "team1", 0, ReplayName("unranked", mid))
    IN  { [mid \in ids |-> old(mid)] : ids \in SUBSET (1..(ScanPageItems + 1)) }

\* curr_match_table.scan(Select="SPECIFIC_ATTRIBUTES", ProjectionExpression=
\* "MATCH_ID"), called once: the MATCH_IDs of every item of a table of at most
\* one page, else of one page of its items (the rest lies behind the
\* LastEvaluatedKey of the response, which is not followed)
ScanPages(ids) ==
    IF Cardinality(ids) <= ScanPageItems THEN {ids}
    ELSE { page \in SUBSET ids : Cardinality(page) = ScanPageItems }

\* StorageHandler.get_next_match_id on the items of the scan
get_next_match_id(items) ==
    IF Cardinality(items) = 0 THEN 1
    ELSE 1 + (CHOOSE x \in items : \A y \in items : y <= x)

\* connect_to_dynamodb, the startup event: app.match_counter =
\* AtomicCounter(get_next_match_id())
connect_to_dynamodb(items) ==
    /\ match_counter = 0
    /\ items \in ScanPages(DOMAIN table)
    /\ match_counter' = get_next_match_id(items)
    /\ UNCHANGED <<table, scrimVars, tourVars, replay_bucket, engineVars, registryVars,
                   restVars>>

\* The process has been started and the counter not yet made
InitStart ==
    /\ match_counter = 0
    /\ table \in StoredTables
    /\ replay_bucket = {}
    /\ errlog_bucket = {}
    /\ scrimmage_table = {}
    /\ EngineUnset
    /\ ScrimIdle
    /\ TourIdle
    /\ ujobs = {}
    /\ uhandler = [h \in Handlers |-> UIdle]
    /\ uresponse = <<>>
    /\ CounterIdle
    /\ StepsIdle

NextStart ==
    \/ \E items \in SUBSET (1..(ScanPageItems + 1)) : connect_to_dynamodb(items)
    \/ match_counter > 0 /\ NextMatch

SpecStart == InitStart /\ [][NextStart]_vars

\* C33: once the counter has been seeded at startup, the next id is greater
\* than the match id of every record of the table (the records found at
\* startup and the ones inserted since), so that no PENDING row is put under
\* the id of an existing record.
C33_SeedAboveStoredIds ==
    match_counter > 0 => \A mid \in DOMAIN table : mid < match_counter

\* ------------------------------------------ the scrimmage request to dispatch
\* The lists get_match_players_info can return for a request of nsubs
\* submissions: one entry per submitted user that has a rating row, sorted by
\* rating, descending
RatedLists(nsubs) ==
    UNION { { ps \in [1..n -> RatingValues] : \A i \in 1..(n - 1) : ps[i] >= ps[i + 1] }
            : n \in 0..nsubs }

\* run_scrimmage of main.py with RankedGameRunner.run_ranked_scrimmage, for a
\* request of nsubs submissions of which the users of ps have a rating row
run_scrimmage(nsubs, ps) ==
    /\ spc = "idle"
    /\ mresponse = NoResponse
    /\ ~(app_engine = <<>> \/ app_maps = <<>>)
    /\ scrimmage_table' = scrimmage_table \cup {scrimmage_id}
    /\ IF nsubs < num_matches
       THEN UNCHANGED <<players, playerTable, spc>>
       ELSE /\ players' = ps
            /\ playerTable' = ps
            /\ spc' = "start"
    /\ mresponse' = [req |-> [game_engine_name |-> EngineName, num_players |-> 0,
                              user_submissions |-> nsubs],
                     send |-> "scrimmage", status |-> 200]
    /\ UNCHANGED <<sharedVars, toSend, callbacks, jobs, net_elo_changes, matches_left, handler,
                   eloWrites, netDone, delta, tourVars, replay_bucket, engineVars, tourney_table,
                   unrankedVars, counterVars, errlog_bucket, tlock, tfire, poolVars>>

InitRequest ==
    /\ match_counter = 1
    /\ table = <<>>
    /\ EngineSet(<<1>>)
    /\ Quiet

NextRequest ==
    \/ \E nsubs \in 0..MaxScrimPlayers : \E ps \in RatedLists(nsubs) : run_scrimmage(nsubs, ps)
    \/ ScrimSetup
    \/ ScrimSend

SpecRequest == InitRequest /\ [][NextRequest]_vars

\* C40: a scrimmage request of 4 or more submissions, however many of them
\* have a rating row, gets through the pairing construction (no index of the
\* rated-player list is out of range) and its worker reaches the dispatch
\* step; a request of fewer than 4 submissions dispatches no match and
\* changes no rating.
C40_PairingIndicesValid ==
    mresponse.send = "scrimmage" =>
        IF mresponse.req.user_submissions >= num_matches
        THEN spc \in {"start", "dispatch", "done"}
        ELSE /\ spc = "idle"
             /\ jobs = {}
             /\ table = <<>>
             /\ playerTable = <<>>

\* --------------------------------------- scrimmage callbacks delivered again
\* Most callbacks the runner delivers a second time in one scrimmage.
MaxRetries == 1

\* Callbacks delivered beyond one per match: each delivery is at the runner,
\* in a handler ahead of its decrement, or has taken matches_left down by one
RetriesSoFar ==
    Cardinality(toSend) + Cardinality(jobs)
    + Cardinality({ h \in Handlers : handler[h].pc \in {"r1", "w1", "r2", "w2", "fin"} })
    - matches_left

\* The runner posts the callback of match mid once more (a retry of a request
\* it has made before): /scrimmage_callback/{scrimmage_id}/{match_id} takes
\* any match id that is registered
RunnerRetry(mid) ==
    /\ spc \in {"dispatch", "done"}
    /\ mid \in DOMAIN callbacks
    /\ mid \notin jobs
    /\ RetriesSoFar < MaxRetries
    /\ jobs' = jobs \cup {mid}
    /\ UNCHANGED <<sharedVars, players, spc, toSend, callbacks, net_elo_changes, matches_left,
                   handler, playerTable, eloWrites, netDone, delta, tourVars, replay_bucket,
                   engineVars, registryVars, restVars>>

InitRetry ==
    /\ InitScrim
    /\ players = <<1600, 1500, 1400>>

NextRetry ==
    \/ NextScrim
    \/ \E mid \in 1..(num_matches - 1) : RunnerRetry(mid)

SpecRetry == InitRetry /\ [][NextRetry]_vars

\* Matches of the batch whose callback has not run to its end: not yet
\* dispatched, or dispatched with a row that is not FINISHED
Unreported ==
    Cardinality(toSend) +
    Cardinality({ mid \in DOMAIN callbacks : table[mid].status # "finished" })

\* C35: whatever callbacks are delivered to a scrimmage, repeated ones for the
\* same match id included, matches_left is the number of distinct matches
\* that have not reported, it is never negative, and the ratings are written
\* only when every distinct match has reported.
C35_DistinctMatchesCounted ==
    spc \in {"dispatch", "done"} =>
        /\ matches_left = Unreported
        /\ matches_left >= 0
        /\ eloWrites >= 1 => Unreported = 0

\* ------------------------------------- a scrimmage whose dispatch can fail
\* One iteration of the dispatch loop in which currMatch.sendJob() raises (an
\* upload or tango.add_job fails): the id is taken and the callback registered,
\* the PENDING row is there if the raise came after insert_pending_match_into_table,
\* no job is at the runner, and the exception, caught nowhere, ends the thread.
ScrimSendFails(send) ==
    /\ spc = "dispatch"
    /\ ~JobSubmitted(send)
    /\ LET pair == NextPairing(toSend) IN
        /\ toSend' = toSend \ {pair}
        /\ callbacks' = (match_counter :> pair) @@ callbacks
        /\ table' = IF RowInserted(send) THEN (match_counter :> PendingRow) @@ table ELSE table
        /\ match_counter' = match_counter + 1
        /\ spc' = "raised"
    /\ UNCHANGED <<players, jobs, net_elo_changes, matches_left, handler, playerTable,
                   eloWrites, netDone, delta, tourVars,
                   restVars, engineVars, registryVars, replay_bucket>>

NextDispatch ==
    \/ NextScrim
    \/ \E send \in SendResults : ScrimSendFails(send)

\* The worker thread and the callback handlers keep running: a step that can
\* be taken is taken, so every job at the runner gets its callback and every
\* callback received is handled to its end.
SpecDispatch == InitRetry /\ [][NextDispatch]_vars /\ WF_vars(NextDispatch)

\* C36: a scrimmage whose submitted jobs all get their callbacks completes
\* and writes the final ratings, also when sendJob fails for one pairing part
\* of the way through the dispatch loop.
C36_BatchCompletes == (spc = "start") ~> (eloWrites >= 1)

\* ------------------------- a tournament callback that raises in the registry
\* run_tournament_callback when get_replay_url raises inside
\* TourneyPairUpRunner.__call__: the win has been counted, the exception leaves
\* the with block of OngoingTourneyTable.__call__ (the lock is given back) and
\* reaches the except branch of the handler, which marks the row failed and
\* calls the registry entry again, with winner -1.
TourFireRaises(mid) ==
    /\ mid \in DOMAIN tfire
    /\ tfire[mid].pc = "call"
    /\ tfire[mid].winner > 0
    /\ tlock = 0
    /\ LET i == tcallbacks[mid][2]
           r == pairups[i]
           winner == tfire[mid].winner
       IN  pairups' = [pairups EXCEPT ![i] =
                 [r EXCEPT !.p1wins = WinsAfter(r.p1wins, 1, winner),
                           !.p2wins = WinsAfter(r.p2wins, 2, winner)]]
    /\ table' = [table EXCEPT ![mid] = FailedRow(@)]
    /\ tfire' = [tfire EXCEPT ![mid].winner = -1]
    /\ UNCHANGED <<match_counter, scrimVars, app_maps, tpc, match_map_order, tplayers, tlayer,
                   layerIdx, bracket, tcallbacks, tjobs, toutcome, num_tournament_spots,
                   replay_bucket, engineVars, registryVars,
                   unrankedVars, counterVars, errlog_bucket, mresponse, tlock, poolVars>>

NextRaise ==
    \/ NextTourSteps
    \/ \E mid \in MatchIds : TourFireRaises(mid)

SpecRaise == InitTourSteps /\ [][NextRaise]_vars

\* Entries of a pairing's matchWinners that record a failed map
FailedMaps(r) == Cardinality({ k \in 1..Len(r.matchWinners) : r.matchWinners[k] < 0 })

\* C34: one callback request runs the per-match callback of its batch at most
\* once, also when result processing raises part of the way: in a tournament
\* pairing the maps counted as a win and the maps recorded as failed are
\* together no more than the maps it has dispatched (no map is both).
C34_CallbackRunsOncePerRequest ==
    \A i \in DOMAIN pairups :
        pairups[i].p1wins + pairups[i].p2wins + FailedMaps(pairups[i]) <= Len(pairups[i].sent)

\* --------------------------------------------- a layer run by a thread pool
\* Most worker threads of the pool of a layer.  (The source builds
\* ThreadPoolExecutor(16); the pools looked into here are small enough to be
\* full with the layers of MaxTourneyPlayers players.)
MaxWorkers == 2

\* Pairings of the layer that hold a worker thread: taken from the queue and
\* not yet returned to the pool
BusyWorkers(ps) == { i \in DOMAIN ps : ps[i].pc \notin {"new", "done"} }

\* (variant: a worker is not given back when its pairing has returned)
PoolWorkerNeverFreed(ps, n) == Cardinality({ i \in DOMAIN ps : ps[i].pc # "new" }) < n

\* ThreadPoolExecutor: a queued task is taken while fewer than max_workers run
PoolWorkerFree(ps, n) == Cardinality(BusyWorkers(ps)) < n

\* (variant: the results are listed in the order the pairings completed)
PoolResultsAsCompleted(ps, done) == [k \in DOMAIN done |-> ps[done[k]].result]

\* list(ThreadPoolExecutor(..).map(TourneyPairUpRunner.start, pairups)): the
\* results in the order of pairups, whatever the order of completion
PoolResults(ps, done) == [i \in DOMAIN ps |-> ps[i].result]

\* The layer loop: build the pairups and submit them to the pool (map submits
\* every task before it yields a result)
PoolSubmit ==
    /\ tpc = "layer"
    /\ LayerLoopContinues(Len(tlayer))
    /\ pairups' = [j \in 1..(Len(tlayer) \div 2) |->
                     NewPairing(tlayer[2 * j - 1], tlayer[2 * j],
                                match_map_order[(layerIdx % Len(match_map_order)) + 1])]
    /\ returned' = <<>>
    /\ tpc' = "wait"
    /\ UNCHANGED <<sharedVars, scrimVars, app_maps, match_map_order, tplayers, tlayer,
                   layerIdx, bracket, tcallbacks, tjobs, toutcome, num_tournament_spots,
                   replay_bucket, engineVars, registryVars,
                   unrankedVars, counterVars, errlog_bucket, stepVars, max_workers>>

\* A free worker takes the pairing at the head of the queue and runs start up
\* to its loop over the maps
PoolTake(i) ==
    /\ tpc = "wait"
    /\ i \in DOMAIN pairups
    /\ pairups[i].pc = "new"
    /\ \A j \in 1..(i - 1) : pairups[j].pc # "new"
    /\ PoolWorkerFree(pairups, max_workers)
    /\ pairups' = [pairups EXCEPT ![i] = StartPairing(@)]
    /\ UNCHANGED <<sharedVars, scrimVars, app_maps, tpc, match_map_order, tplayers, tlayer,
                   layerIdx, bracket, tcallbacks, tjobs, toutcome, num_tournament_spots,
                   replay_bucket, engineVars, registryVars,
                   unrankedVars, counterVars, errlog_bucket, stepVars, poolVars>>

\* start has returned: the worker sets the result of the task and is free
PoolDone(i) ==
    /\ i \in DOMAIN pairups
    /\ pairups[i].pc = "returned"
    /\ pairups' = [pairups EXCEPT ![i].pc = "done"]
    /\ returned' = Append(returned, i)
    /\ UNCHANGED <<sharedVars, scrimVars, app_maps, tpc, match_map_order, tplayers, tlayer,
                   layerIdx, bracket, tcallbacks, tjobs, toutcome, num_tournament_spots,
                   replay_bucket, engineVars, registryVars,
                   unrankedVars, counterVars, errlog_bucket, stepVars, max_workers>>

\* list(...) has every result of the layer: reorder, keep the winners
PoolLayerEnd ==
    /\ tpc = "wait"
    /\ \A i \in DOMAIN pairups : pairups[i].pc = "done"
    /\ LET raw_results == PoolResults(pairups, returned)
           results == ReorderResults(raw_results)
       IN  /\ tlayer' = [i \in DOMAIN results |-> results[i][2]]
           /\ bracket' = Append(bracket, [i \in DOMAIN results |-> results[i][1]])
    /\ layerIdx' = layerIdx + 1
    /\ tpc' = "layer"
    /\ UNCHANGED <<sharedVars, scrimVars, app_maps, match_map_order, tplayers, pairups,
                   tcallbacks, tjobs, toutcome, num_tournament_spots,
                   replay_bucket, engineVars, registryVars,
                   unrankedVars, counterVars, errlog_bucket, stepVars, poolVars>>

\* The engine of a one-map order is set, the pool has 1..MaxWorkers workers;
\* no batch has been requested.
InitPool ==
    /\ match_counter = 1
    /\ table = <<>>
    /\ replay_bucket = {}
    /\ errlog_bucket = {}
    /\ scrimmage_table = {}
    /\ EngineSet(<<1>>)
    /\ ScrimIdle
    /\ TourIdle
    /\ UnrankedIdle
    /\ CounterIdle
    /\ mresponse = NoResponse
    /\ tlock = 0
    /\ tfire = <<>>
    /\ max_workers \in 1..MaxWorkers
    /\ returned = <<>>

\* The steps of a tournament that has been requested
PoolRun ==
    \/ TourSeed
    \/ PoolSubmit
    \/ \E i \in 1..MaxTourneyPlayers : PoolTake(i)
    \/ \E i \in 1..MaxTourneyPlayers : PairCreate(i)
    \/ \E i \in 1..MaxTourneyPlayers : PairRegister(i)
    \/ \E i \in 1..MaxTourneyPlayers : PairInsert(i)
    \/ \E i \in 1..MaxTourneyPlayers : PairAddJob(i)
    \/ \E i \in 1..MaxTourneyPlayers : PairAcquire(i)
    \/ \E i \in 1..MaxTourneyPlayers : PoolDone(i)
    \/ \E mid \in MatchIds : TourCallbackRecv(mid)
    \/ \E mid \in MatchIds : TourFire(mid)
    \/ \E mid \in MatchIds : TourFireExit(mid)
    \/ PoolLayerEnd
    \/ TourFinish

\* Tournaments of up to MaxTourneyPlayers + 1 rated players: three layers, and
\* no more than MaxTourneyPlayers pairings in one.
NextPool ==
    \/ \E n \in 0..(MaxTourneyPlayers + 1) : RunTournament(n, MaxTourneyPlayers)
    \/ PoolRun

SpecPool == InitPool /\ [][NextPool]_vars

\* The document and the winner start returns for the pairing r, worked out
\* from its two players and the winner each of its matches was reported with
\* (toutcome), in the order the pairing dispatched them
DocOfWinners(r) ==
    IF r.p1 = None \/ r.p2 = None
    THEN << [player1 |-> ByeWinner(r.p1, r.p2), player2 |-> "bye",
             winner |-> ByeWinner(r.p1, r.p2), replay_filename |-> <<>>],
            ByeWinner(r.p1, r.p2) >>
    ELSE LET won(who) == Cardinality({ k \in 1..Len(r.sent) : toutcome[r.sent[k]] = who })
             winner == IF won(1) >= won(2) THEN r.p1 ELSE r.p2
         IN  << [player1 |-> r.p1, player2 |-> r.p2, overall_winner |-> winner,
                 replay_filename |-> [k \in 1..Len(r.sent) |->
                                        IF toutcome[r.sent[k]] > 0 THEN ReplayUrl(r.sent[k])
                                        ELSE FailedLoc],
                 map_winners |-> [k \in 1..Len(r.sent) |-> toutcome[r.sent[k]]]],
                winner >>

\* C31: the layer a tournament adds to its bracket, and the players it takes
\* to the next layer, are given by the layer's players in pairing order and
\* the winner of each match alone: for every pool size from 1 up (pools
\* smaller than the number of pairings included) and every order in which
\* the pairings complete, they are the documents of the pairings, in pairing
\* order, put through the reordering.
C31_BracketOfWinnersOnly ==
    [][(tpc = "wait" /\ tpc' = "layer") =>
          LET expected == ReorderResults([i \in DOMAIN pairups |-> DocOfWinners(pairups[i])])
          IN  /\ bracket'[Len(bracket')] = [j \in DOMAIN expected |-> expected[j][1]]
              /\ tlayer' = [j \in DOMAIN expected |-> expected[j][2]]]_vars

\* A layer of more pairings than the pool has workers has ended, and its
\* pairings completed in another order than the one they were submitted in
C31_Witness ==
    /\ tpc = "layer"
    /\ layerIdx >= 1
    /\ max_workers < Len(pairups)
    /\ \E k \in 1..(Len(returned) - 1) : returned[k] > returned[k + 1]
    /\ \E i \in DOMAIN pairups : Len(pairups[i].sent) > 0

\* Matches registered for a layer before the current one
EarlierMatches == { mid \in DOMAIN tcallbacks : tcallbacks[mid][1] < layerIdx }

\* C38: the layers of a tournament run one after the other: while a match of
\* layer L + 1 is being dispatched or is out, every match of the layers up to
\* L has had its callback run and every pairing of those layers has its
\* document in the bracket; pairings dispatch only while the worker waits for
\* the pool of the current layer; and the bracket is uploaded only when no
\* match is at the runner or has a callback yet to run.
C38_LayersSequential ==
    /\ \A mid \in EarlierMatches :
          /\ mid \notin tjobs
          /\ mid \in DOMAIN tfire
          /\ tfire[mid].pc \in {"exit", "done"}
    /\ \A mid \in DOMAIN tcallbacks : tcallbacks[mid][1] <= layerIdx
    /\ tpc \in {"layer", "wait"} => Len(bracket) = layerIdx
    /\ \A i \in DOMAIN pairups :
          pairups[i].pc \in {"send", "register", "insert_pending", "add_job", "acquire"}
             => tpc = "wait"
    /\ tpc \in {"layer", "done"} => CallbackDue = {}

\* A match of the second layer is at the runner, after the matches of the first
C38_Witness ==
    /\ tpc = "wait"
    /\ layerIdx = 1
    /\ tjobs # {}
    /\ Cardinality(EarlierMatches) >= 2

\* C39: a running tournament does not deadlock.  The callback that holds the
\* lock of the registry is past everything it does under it and can leave
\* (it waits on no semaphore and on no pairing thread); a pairing that waits
\* on its semaphore has its match at the runner, a callback due or a permit
\* there, and the lock is not held on its behalf; a pairing queued behind a
\* full pool waits for workers whose pairings can go on without it; so that
\* from every state of a requested tournament that has not uploaded its
\* bracket some step can be taken.
C39_NoDeadlock ==
    /\ tlock # 0 => (tlock \in DOMAIN tfire /\ tfire[tlock].pc = "exit")
    /\ \A i \in DOMAIN pairups :
          (pairups[i].pc = "acquire" /\ ~SemAvailable(pairups[i].sem))
             => /\ pairups[i].next_match_id \in CallbackDue
                /\ tlock # pairups[i].next_match_id
    /\ (\E i \in DOMAIN pairups : pairups[i].pc = "new")
          => (tpc = "wait" /\ (PoolWorkerFree(pairups, max_workers) \/ BusyWorkers(pairups) # {}))
    /\ tpc \in {"seed", "layer", "wait"} => ENABLED PoolRun

\* The pool is full with a pairing that waits on its semaphore while another
\* pairing is queued and the callback of the match is under the lock
C39_Witness ==
    /\ tpc = "wait"
    /\ \E i \in DOMAIN pairups : pairups[i].pc = "new"
    /\ ~PoolWorkerFree(pairups, max_workers)
    /\ \E i \in DOMAIN pairups : pairups[i].pc = "acquire"
    /\ tlock # 0

\* ------------------------------------------ a tournament that keeps running
\* The worker, the pooled pairings and the callback handlers keep running:
\* every sendJob succeeds (the dispatch steps have no failing outcome), every
\* match at the runner gets its one callback, and a step that can be taken is
\* taken.
SpecPoolFair == InitPool /\ [][NextPool]_vars /\ WF_vars(PoolRun)

\* The least k with 2^k >= n
CeilLog2(n) == CHOOSE k \in 0..n : Pow2(k) >= n /\ \A j \in 0..(k - 1) : Pow2(j) < n

====
